---- MODULE Spec2Model ----
(***************************************************************************)
(* A model of the resource-policy-evaluation-library (rpe):                *)
(*   - the audit-log extractor  rpe/extractors/gcp_auditlogs.py            *)
(*   - the python policy engine rpe/engines/python.py                      *)
(*                                                                         *)
(* Python strings on which the code does character work (split,            *)
(* startswith, lower, substring tests) are tuples of one-character         *)
(* strings, so that these operations are computed and not assumed.         *)
(* A JSON path that is absent reads as None, as jmespath.search gives it.  *)
(***************************************************************************)
EXTENDS Integers, Sequences, FiniteSets, TLC

(***************************************************************************)
(* Python values                                                           *)
(***************************************************************************)

\* Python's None; no string of the model equals it (its one element is not
\* a character).
None == <<"None">>

\* JSON booleans and an absent boolean key
JTrue == "true"
JFalse == "false"
JAbsent == "absent"

\* Python truthiness of a string or None: None and "" are false
Truthy(v) == v /= None /\ v /= << >>

\* a or b
PyOr(a, b) == IF Truthy(a) THEN a ELSE b

Last(s) == s[Len(s)]

\* str.startswith(prefix)
StartsWith(s, p) == Len(p) <= Len(s) /\ SubSeq(s, 1, Len(p)) = p

\* str.startswith(tuple of prefixes)
StartsWithAny(s, ps) == \E p \in ps : StartsWith(s, p)

\* "x in s" on strings
Contains(s, x) == \E i \in 0..(Len(s) - Len(x)) : SubSeq(s, i + 1, i + Len(x)) = x

\* str.split(sep) for a one-character separator: always at least one piece
RECURSIVE SplitFrom(_, _, _, _)
SplitFrom(s, sep, i, cur) ==
  IF i > Len(s) THEN << cur >>
  ELSE IF s[i] = sep THEN << cur >> \o SplitFrom(s, sep, i + 1, << >>)
  ELSE SplitFrom(s, sep, i + 1, Append(cur, s[i]))

Split(s, sep) == SplitFrom(s, sep, 1, << >>)

UpperChars == <<"A","B","C","D","E","F","G","H","I","J","K","L","M","N","O","P","Q","R","S","T","U","V","W","X","Y","Z">>
LowerChars == <<"a","b","c","d","e","f","g","h","i","j","k","l","m","n","o","p","q","r","s","t","u","v","w","x","y","z">>

LowerChar(c) ==
  IF \E i \in 1..Len(UpperChars) : UpperChars[i] = c
  THEN LowerChars[CHOOSE i \in 1..Len(UpperChars) : UpperChars[i] = c]
  ELSE c

\* str.lower()
Lower(s) == [i \in 1..Len(s) |-> LowerChar(s[i])]

\* what a call gives: a value, or the exception it raised
Returns(v) == [exc |-> "none", val |-> v]
Raises(e) == [exc |-> e, val |-> << >>]

(***************************************************************************)
(* GCPAuditLog: envelope validation                                        *)
(***************************************************************************)

AUDIT_LOG_TYPE == <<"t","y","p","e",".","g","o","o","g","l","e","a","p","i","s",".","c","o","m","/","g","o","o","g","l","e",".","c","l","o","u","d",".","a","u","d","i","t",".","A","u","d","i","t","L","o","g">>
AUDIT_LOG_NAME_PREFIX == <<"c","l","o","u","d","a","u","d","i","t",".","g","o","o","g","l","e","a","p","i","s",".","c","o","m">>

\* message_data.get("logName", "")
LogNameOf(m) == IF m.logName = None THEN << >> ELSE m.logName

is_audit_log_any_segment(m) ==
  /\ m.ptype = AUDIT_LOG_TYPE
  /\ Contains(LogNameOf(m), AUDIT_LOG_NAME_PREFIX)

is_audit_log(m) ==
  /\ m.ptype = AUDIT_LOG_TYPE
  /\ StartsWith(Last(Split(LogNameOf(m), "/")), AUDIT_LOG_NAME_PREFIX)

(***************************************************************************)
(* GCPAuditLog: metadata derivation                                        *)
(***************************************************************************)

read_prefixes == << <<"g","e","t">>, <<"l","i","s","t">> >>
update_prefixes_with_de ==
  << <<"u","p","d","a","t","e">>, <<"p","a","t","c","h">>, <<"s","e","t">>, <<"d","e">>, <<"e","n","a","b","l","e">>, <<"d","i","s","a","b","l","e">>,
     <<"e","x","p","a","n","d">>, <<"a","c","t","i","v","a","t","e">>, <<"s","w","i","t","c","h">> >>

update_prefixes ==
  << <<"u","p","d","a","t","e">>, <<"p","a","t","c","h">>, <<"s","e","t">>, <<"d","e","b","u","g">>, <<"e","n","a","b","l","e">>, <<"d","i","s","a","b","l","e">>,
     <<"e","x","p","a","n","d">>, <<"d","e","a","c","t","i","v","a","t","e">>, <<"a","c","t","i","v","a","t","e">>, <<"s","w","i","t","c","h">> >>
create_prefixes == << <<"c","r","e","a","t","e">>, <<"i","n","s","e","r","t">> >>
delete_prefixes == << <<"d","e","l","e","t","e">> >>

Elems(t) == {t[i] : i \in 1..Len(t)}

LastSegment_keeps_batch(method_name) == Lower(Last(Split(method_name, ".")))

\* the last dot-separated piece, lower-cased, a leading "batch" cut off
LastSegment(method_name) ==
  LET last == Lower(Last(Split(method_name, ".")))
  IN IF StartsWith(last, <<"b","a","t","c","h">>) THEN SubSeq(last, 6, Len(last)) ELSE last

Classify(last) ==
  IF StartsWithAny(last, Elems(read_prefixes)) THEN "read"
  ELSE IF StartsWithAny(last, Elems(update_prefixes)) THEN "update"
  ELSE IF StartsWithAny(last, Elems(create_prefixes)) THEN "create"
  ELSE IF StartsWithAny(last, Elems(delete_prefixes)) THEN "delete"
  ELSE "None"

\* None has no split: AttributeError
get_operation_type(method_name) ==
  IF method_name = None THEN Raises("AttributeError")
  ELSE Returns(Classify(LastSegment(method_name)))

\* dateutil.parser.parse: a timestamp that is absent is a TypeError
parse_timestamp(ts) ==
  IF ts = None THEN Raises("TypeError") ELSE Returns(ts)

\* GCPAuditLogMetadata(...): id and timestamp are not Optional
GCPAuditLogMetadata(id, timestamp, method_name, operation, principal) ==
  IF id = None THEN Raises("ValidationError")
  ELSE Returns([id |-> id, timestamp |-> timestamp, method_name |-> method_name,
                operation |-> operation, principal |-> principal])

get_metadata(m) ==
  LET timestamp == parse_timestamp(m.timestamp)
      operation == get_operation_type(m.methodName)
  IN IF timestamp.exc /= "none" THEN Raises(timestamp.exc)
     ELSE IF operation.exc /= "none" THEN Raises(operation.exc)
     ELSE GCPAuditLogMetadata(m.insertId, timestamp.val, m.methodName,
                              operation.val, m.principal)

(***************************************************************************)
(* Resource construction (rpe/resources/gcp.py is not among the sources:   *)
(* the registry is modelled from the types the tests construct)            *)
(***************************************************************************)

RegisteredTypes ==
  { "appengine.googleapis.com/Instance", "bigquery.googleapis.com/Dataset",
    "bigtableadmin.googleapis.com/Instance",
    "cloudfunctions.googleapis.com/CloudFunction",
    "cloudresourcemanager.googleapis.com/Organization",
    "cloudresourcemanager.googleapis.com/Project",
    "compute.googleapis.com/Disk", "compute.googleapis.com/Firewall",
    "compute.googleapis.com/Instance", "compute.googleapis.com/Network",
    "compute.googleapis.com/RegionDisk", "compute.googleapis.com/Subnetwork",
    "container.googleapis.com/Cluster", "container.googleapis.com/NodePool",
    "dataflow.googleapis.com/Job", "dataform.googleapis.com/Repository",
    "dataform.googleapis.com/Workspace", "datafusion.googleapis.com/Instance",
    "dataproc.googleapis.com/Cluster", "iam.googleapis.com/ServiceAccount",
    "iam.googleapis.com/ServiceAccountKey", "memcache.googleapis.com/Instance",
    "pubsub.googleapis.com/Subscription", "pubsub.googleapis.com/Topic",
    "redis.googleapis.com/Instance", "serviceusage.googleapis.com/Service",
    "sqladmin.googleapis.com/Instance", "storage.googleapis.com/Bucket" }

\* the identity fields a resource type cannot be made without
required_resource_data(resource_type) ==
  IF resource_type = "appengine.googleapis.com/Instance"
  THEN {"name", "app", "service", "version"}
  ELSE {"name"}

construction_error_name_first(resource_data) ==
  IF ~(required_resource_data(resource_data.resource_type) \subseteq DOMAIN resource_data)
  THEN "Missing data required for resource creation"
  ELSE IF resource_data.resource_type \notin RegisteredTypes
  THEN "Unrecognized resource type"
  ELSE "none"

\* what stops the construction of a resource: the type is looked up first,
\* then the identity fields of the type are looked for
construction_error(resource_data) ==
  IF resource_data.resource_type \notin RegisteredTypes
  THEN "Unrecognized resource type"
  ELSE IF ~(required_resource_data(resource_data.resource_type)
              \subseteq DOMAIN resource_data)
  THEN "Missing data required for resource creation"
  ELSE "none"

\* GoogleAPIResource.from_resource_data(**resource_data): the resource keeps
\* the identity fields it was given
from_resource_data(resource_data) ==
  IF construction_error(resource_data) = "none"
  THEN Returns(resource_data)
  ELSE Raises("ResourceException")

(***************************************************************************)
(* GCPAuditLog: resource resolution                                        *)
(***************************************************************************)

\* prop("resource.labels.<key>")
Label(m, key) == IF key \in DOMAIN m.labels THEN m.labels[key] ELSE None

\* add_resource() for each resource_data of a rule, in order
RECURSIVE AddResources(_, _)
AddResources(rds, i) ==
  IF i > Len(rds) THEN Returns(<< >>)
  ELSE LET res == from_resource_data(rds[i])
           rest == AddResources(rds, i + 1)
       IN IF res.exc /= "none" THEN Raises(res.exc)
          ELSE IF rest.exc /= "none" THEN Raises(rest.exc)
          ELSE Returns(<< res.val >> \o rest.val)

add_resources(rds) == AddResources(rds, 1)

\* the name-bearing paths of a CloudSQL log, in the order the code reads them
cloudsql_name(m) ==
  PyOr(PyOr(Last(Split(Label(m, "database_id"), ":")), m.bodyName), m.instanceId)

rule_cloudsql(m) ==
  IF Label(m, "database_id") = None THEN Raises("AttributeError")
  ELSE add_resources(<<
         [resource_type |-> "sqladmin.googleapis.com/Instance",
          name |-> cloudsql_name(m),
          location |-> Label(m, "region"),
          project_id |-> Label(m, "project_id")] >>)

rule_gcs_bucket(m) ==
  add_resources(<<
    [resource_type |-> "storage.googleapis.com/Bucket",
     name |-> Label(m, "bucket_name"),
     location |-> Label(m, "location"),
     project_id |-> Label(m, "project_id")] >>)

rule_bigquery_dataset(m) ==
  add_resources(<<
    [resource_type |-> "bigquery.googleapis.com/Dataset",
     name |-> Label(m, "dataset_id"),
     project_id |-> Label(m, "project_id")] >>)

rule_project(m) ==
  add_resources(<<
    [resource_type |-> "cloudresourcemanager.googleapis.com/Project",
     name |-> Label(m, "project_id"),
     project_id |-> Label(m, "project_id")] >>)

rule_pubsub_subscription(m) ==
  IF Label(m, "subscription_id") = None THEN Raises("AttributeError")
  ELSE add_resources(<<
         [resource_type |-> "pubsub.googleapis.com/Subscription",
          name |-> Last(Split(Label(m, "subscription_id"), "/")),
          project_id |-> Label(m, "project_id")] >>)

rule_pubsub_topic(m) ==
  IF Label(m, "topic_id") = None THEN Raises("AttributeError")
  ELSE add_resources(<<
         [resource_type |-> "pubsub.googleapis.com/Topic",
          name |-> Last(Split(Label(m, "topic_id"), "/")),
          project_id |-> Label(m, "project_id")] >>)

\* one Service per enumerated service, else the one the resource name ends in
ServiceOf(m, s) ==
  [resource_type |-> "serviceusage.googleapis.com/Service",
   project_id |-> Label(m, "project_id"),
   name |-> s]

services_names_first(m) == IF m.serviceNames /= << >> THEN m.serviceNames ELSE m.serviceIds

services(m) == IF m.serviceIds /= << >> THEN m.serviceIds ELSE m.serviceNames

rule_service(m) ==
  IF services(m) /= << >>
  THEN add_resources([i \in 1..Len(services(m)) |-> ServiceOf(m, services(m)[i])])
  ELSE IF m.resourceName = None THEN Raises("AttributeError")
  ELSE add_resources(<< ServiceOf(m, Last(Split(m.resourceName, "/"))) >>)

rule_deactivate_services(m) ==
  add_resources(<<
    [resource_type |-> "serviceusage.googleapis.com/Service",
     name |-> Label(m, "service"),
     project_id |-> Label(m, "project_id")] >>)

rule_gce_network(m) ==
  IF m.resourceName = None THEN Raises("AttributeError")
  ELSE add_resources(<<
         [resource_type |-> "compute.googleapis.com/Network",
          name |-> Last(Split(m.resourceName, "/")),
          project_id |-> Label(m, "project_id")] >>)

rule_gce_subnetwork(m) ==
  add_resources(<<
    [resource_type |-> "compute.googleapis.com/Subnetwork",
     name |-> Label(m, "subnetwork_name"),
     project_id |-> Label(m, "project_id"),
     location |-> Label(m, "location")] >>)

rule_gce_firewall_rule(m) ==
  IF m.resourceName = None THEN Raises("AttributeError")
  ELSE add_resources(<<
         [resource_type |-> "compute.googleapis.com/Firewall",
          name |-> Last(Split(m.resourceName, "/")),
          project_id |-> Label(m, "project_id")] >>)

rule_gae_app(m) ==
  IF m.resourceName = None THEN Raises("AttributeError")
  ELSE LET instance_data == Split(m.resourceName, "/")
       IN IF Len(instance_data) < 6 THEN Raises("IndexError")
          ELSE add_resources(<<
                 [resource_type |-> "appengine.googleapis.com/Instance",
                  name |-> Last(instance_data),
                  app |-> instance_data[2],
                  service |-> instance_data[4],
                  version |-> instance_data[6]] >>)

compute_reserved_prefixes == << <<"a","e","f","-">>, <<"a","e","t","-">> >>

\* disk_name or (boot and instance_name) or device_name
actual_disk_name_boot_first(disk, instance_name) ==
  IF disk.boot = JTrue /\ Truthy(instance_name) THEN instance_name
  ELSE PyOr(disk.diskName, disk.deviceName)

actual_disk_name(disk, instance_name) ==
  IF Truthy(disk.diskName) THEN disk.diskName
  ELSE IF disk.boot = JTrue /\ Truthy(instance_name) THEN instance_name
  ELSE disk.deviceName

DiskOf(m, disk, instance_name) ==
  [resource_type |-> "compute.googleapis.com/Disk",
   name |-> actual_disk_name(disk, instance_name),
   location |-> Label(m, "zone"),
   project_id |-> Label(m, "project_id")]

is_hidden_instance_never(instance_name) == FALSE

is_hidden_instance(instance_name) ==
  StartsWithAny(instance_name, Elems(compute_reserved_prefixes))

rule_gce_instance_disks_first(m) ==
  IF m.resourceName = None THEN Raises("AttributeError")
  ELSE LET instance_name == Last(Split(m.resourceName, "/"))
           instance == [resource_type |-> "compute.googleapis.com/Instance",
                        name |-> instance_name,
                        location |-> Label(m, "zone"),
                        project_id |-> Label(m, "project_id")]
       IN IF is_hidden_instance(instance_name) THEN Returns(<< >>)
          ELSE add_resources(
                 [i \in 1..Len(m.disks) |-> DiskOf(m, m.disks[i], instance_name)]
                 \o << instance >>)

rule_gce_instance(m) ==
  IF m.resourceName = None THEN Raises("AttributeError")
  ELSE LET instance_name == Last(Split(m.resourceName, "/"))
           instance == [resource_type |-> "compute.googleapis.com/Instance",
                        name |-> instance_name,
                        location |-> Label(m, "zone"),
                        project_id |-> Label(m, "project_id")]
       IN IF is_hidden_instance(instance_name) THEN Returns(<< >>)
          ELSE add_resources(
                 << instance >> \o
                 [i \in 1..Len(m.disks) |-> DiskOf(m, m.disks[i], instance_name)])

rule_cloud_function(m) ==
  add_resources(<<
    [name |-> Label(m, "function_name"),
     project_id |-> Label(m, "project_id"),
     location |-> Label(m, "region"),
     resource_type |-> "cloudfunctions.googleapis.com/CloudFunction"] >>)

rule_cloud_dataproc_cluster(m) ==
  add_resources(<<
    [resource_type |-> "dataproc.googleapis.com/Cluster",
     project_id |-> Label(m, "project_id"),
     name |-> Label(m, "cluster_name"),
     location |-> Label(m, "region")] >>)

NodePoolOf(m, pool_name) ==
  [resource_type |-> "container.googleapis.com/NodePool",
   name |-> pool_name,
   project_id |-> Label(m, "project_id"),
   location |-> Label(m, "location"),
   cluster |-> Label(m, "cluster_name")]

rule_gke_cluster(m) ==
  LET cluster == [resource_type |-> "container.googleapis.com/Cluster",
                  name |-> Label(m, "cluster_name"),
                  project_id |-> Label(m, "project_id"),
                  location |-> Label(m, "location")]
  IN IF m.methodName = None THEN Raises("AttributeError")
     ELSE IF Contains(Lower(m.methodName), <<"c","r","e","a","t","e">>)
     THEN add_resources(
            << cluster >> \o
            [i \in 1..Len(m.nodePools) |-> NodePoolOf(m, m.nodePools[i])])
     ELSE add_resources(<< cluster >>)

rule_gke_nodepool(m) ==
  add_resources(<<
    [resource_type |-> "container.googleapis.com/NodePool",
     cluster |-> Label(m, "cluster_name"),
     name |-> Label(m, "nodepool_name"),
     project_id |-> Label(m, "project_id"),
     location |-> Label(m, "location")] >>)

rule_bigtable(m) ==
  IF m.resourceName = None THEN Raises("AttributeError")
  ELSE add_resources(<<
         [name |-> Last(Split(m.resourceName, "/")),
          project_id |-> Label(m, "project_id"),
          resource_type |-> "bigtableadmin.googleapis.com/Instance"] >>)

rule_dataflow_step(m) ==
  add_resources(<<
    [name |-> m.job_id,
     project_id |-> Label(m, "project_id"),
     location |-> Label(m, "region"),
     resource_type |-> "dataflow.googleapis.com/Job"] >>)

\* an absent currentLocations has no element 0
rule_redis(m) ==
  IF m.resourceName = None THEN Raises("AttributeError")
  ELSE IF m.currentLocations = << >> THEN Raises("TypeError")
  ELSE add_resources(<<
         [name |-> Last(Split(m.resourceName, "/")),
          project_id |-> Label(m, "project_id"),
          location |-> m.currentLocations[1],
          resource_type |-> "redis.googleapis.com/Instance"] >>)

rule_datafusion(m) ==
  IF m.resourceName = None THEN Raises("AttributeError")
  ELSE LET name_bits == Split(m.resourceName, "/")
       IN IF Len(name_bits) < 6 THEN Raises("IndexError")
          ELSE add_resources(<<
                 [name |-> name_bits[6],
                  project_id |-> name_bits[2],
                  location |-> name_bits[4],
                  resource_type |-> "datafusion.googleapis.com/Instance"] >>)

rule_dataform(m) ==
  IF m.resourceName = None THEN Raises("AttributeError")
  ELSE LET name_bits == Split(m.resourceName, "/")
           n == Len(name_bits)
       IN IF n < 4 THEN Raises("IndexError")
          ELSE IF n = 6 /\ name_bits[5] = <<"r","e","p","o","s","i","t","o","r","i","e","s">>
          THEN add_resources(<<
                 [name |-> name_bits[n],
                  project_id |-> name_bits[2],
                  location |-> name_bits[4],
                  resource_type |-> "dataform.googleapis.com/Repository"] >>)
          ELSE IF n = 8 /\ name_bits[7] = <<"w","o","r","k","s","p","a","c","e","s">>
          THEN add_resources(<<
                 [name |-> name_bits[n],
                  project_id |-> name_bits[2],
                  location |-> name_bits[4],
                  resource_type |-> "dataform.googleapis.com/Workspace",
                  repository |-> name_bits[6]] >>)
          ELSE Returns(<< >>)

\* the resource kinds some rule of the table is keyed by
TableKinds ==
  { <<"c","l","o","u","d","s","q","l","_","d","a","t","a","b","a","s","e">>, <<"g","c","s","_","b","u","c","k","e","t">>, <<"b","i","g","q","u","e","r","y","_","d","a","t","a","s","e","t">>, <<"p","r","o","j","e","c","t">>,
    <<"p","u","b","s","u","b","_","s","u","b","s","c","r","i","p","t","i","o","n">>, <<"p","u","b","s","u","b","_","t","o","p","i","c">>, <<"a","u","d","i","t","e","d","_","r","e","s","o","u","r","c","e">>,
    <<"g","c","e","_","n","e","t","w","o","r","k">>, <<"g","c","e","_","s","u","b","n","e","t","w","o","r","k">>, <<"g","c","e","_","f","i","r","e","w","a","l","l","_","r","u","l","e">>, <<"g","a","e","_","a","p","p">>,
    <<"g","c","e","_","i","n","s","t","a","n","c","e">>, <<"c","l","o","u","d","_","f","u","n","c","t","i","o","n">>, <<"c","l","o","u","d","_","d","a","t","a","p","r","o","c","_","c","l","u","s","t","e","r">>,
    <<"g","k","e","_","c","l","u","s","t","e","r">>, <<"g","k","e","_","n","o","d","e","p","o","o","l">>, <<"d","a","t","a","f","l","o","w","_","s","t","e","p">> }

\* "x in method_name" and method_name.startswith(x) need a string
NoMethod(m) == m.methodName = None

audited_resource_rule_deactivate_first(m) ==
  IF NoMethod(m) THEN "TypeError"
  ELSE IF Contains(m.methodName, <<"D","e","a","c","t","i","v","a","t","e","S","e","r","v","i","c","e","s">>) THEN "deactivate_services"
  ELSE IF \/ Contains(m.methodName, <<"E","n","a","b","l","e","S","e","r","v","i","c","e">>)
          \/ Contains(m.methodName, <<"D","i","s","a","b","l","e","S","e","r","v","i","c","e">>)
          \/ Contains(m.methodName, <<"c","t","i","v","a","t","e","S","e","r","v","i","c","e">>) THEN "service"
  ELSE IF Contains(m.methodName, <<"B","i","g","t","a","b","l","e","I","n","s","t","a","n","c","e","A","d","m","i","n">>) THEN "bigtable"
  ELSE IF Contains(m.methodName, <<"C","l","o","u","d","R","e","d","i","s">>) THEN "redis"
  ELSE IF Label(m, "service") = <<"d","a","t","a","f","u","s","i","o","n",".","g","o","o","g","l","e","a","p","i","s",".","c","o","m">> THEN "datafusion"
  ELSE IF Label(m, "service") = <<"d","a","t","a","f","o","r","m",".","g","o","o","g","l","e","a","p","i","s",".","c","o","m">> THEN "dataform"
  ELSE "no_rule"

\* the audited_resource rules, in the order of the table
audited_resource_rule(m) ==
  IF NoMethod(m) THEN "TypeError"
  ELSE IF \/ Contains(m.methodName, <<"E","n","a","b","l","e","S","e","r","v","i","c","e">>)
          \/ Contains(m.methodName, <<"D","i","s","a","b","l","e","S","e","r","v","i","c","e">>)
          \/ Contains(m.methodName, <<"c","t","i","v","a","t","e","S","e","r","v","i","c","e">>) THEN "service"
  ELSE IF Contains(m.methodName, <<"D","e","a","c","t","i","v","a","t","e","S","e","r","v","i","c","e","s">>) THEN "deactivate_services"
  ELSE IF Contains(m.methodName, <<"B","i","g","t","a","b","l","e","I","n","s","t","a","n","c","e","A","d","m","i","n">>) THEN "bigtable"
  ELSE IF Contains(m.methodName, <<"C","l","o","u","d","R","e","d","i","s">>) THEN "redis"
  ELSE IF Label(m, "service") = <<"d","a","t","a","f","u","s","i","o","n",".","g","o","o","g","l","e","a","p","i","s",".","c","o","m">> THEN "datafusion"
  ELSE IF Label(m, "service") = <<"d","a","t","a","f","o","r","m",".","g","o","o","g","l","e","a","p","i","s",".","c","o","m">> THEN "dataform"
  ELSE "no_rule"

\* the rule of the table that the if/elif chain selects for a message, or the
\* exception that evaluating its conditions raises
table_rule(m) ==
  IF m.resType = <<"c","l","o","u","d","s","q","l","_","d","a","t","a","b","a","s","e">> THEN
    IF NoMethod(m) THEN "AttributeError"
    ELSE IF StartsWith(m.methodName, <<"c","l","o","u","d","s","q","l",".","i","n","s","t","a","n","c","e","s">>) THEN "cloudsql"
    ELSE "no_rule"
  ELSE IF m.resType = <<"g","c","s","_","b","u","c","k","e","t">> THEN
    IF NoMethod(m) THEN "AttributeError"
    ELSE IF StartsWithAny(m.methodName,
                          {<<"s","t","o","r","a","g","e",".","b","u","c","k","e","t","s">>, <<"s","t","o","r","a","g","e",".","s","e","t","I","a","m","P","e","r","m","i","s","s","i","o","n","s">>})
    THEN "gcs_bucket"
    ELSE "no_rule"
  ELSE IF m.resType = <<"b","i","g","q","u","e","r","y","_","d","a","t","a","s","e","t">> THEN
    IF NoMethod(m) THEN "TypeError"
    ELSE IF \/ Contains(m.methodName, <<"D","a","t","a","s","e","t","S","e","r","v","i","c","e">>)
            \/ Contains(m.methodName, <<"e","t","I","a","m","P","o","l","i","c","y">>) THEN "bigquery_dataset"
    ELSE "no_rule"
  ELSE IF m.resType = <<"p","r","o","j","e","c","t">> THEN
    IF NoMethod(m) THEN "TypeError"
    ELSE IF Contains(m.methodName, <<"e","t","I","a","m","P","o","l","i","c","y">>) THEN "project"
    ELSE "no_rule"
  ELSE IF m.resType = <<"p","u","b","s","u","b","_","s","u","b","s","c","r","i","p","t","i","o","n">> THEN
    IF NoMethod(m) THEN "TypeError"
    ELSE IF Contains(m.methodName, <<"e","t","I","a","m","P","o","l","i","c","y">>) THEN "pubsub_subscription"
    ELSE "no_rule"
  ELSE IF m.resType = <<"p","u","b","s","u","b","_","t","o","p","i","c">> THEN
    IF NoMethod(m) THEN "TypeError"
    ELSE IF Contains(m.methodName, <<"e","t","I","a","m","P","o","l","i","c","y">>) THEN "pubsub_topic"
    ELSE "no_rule"
  ELSE IF m.resType = <<"a","u","d","i","t","e","d","_","r","e","s","o","u","r","c","e">> THEN audited_resource_rule(m)
  ELSE IF m.resType = <<"g","c","e","_","n","e","t","w","o","r","k">> THEN "gce_network"
  ELSE IF m.resType = <<"g","c","e","_","s","u","b","n","e","t","w","o","r","k">> THEN "gce_subnetwork"
  ELSE IF m.resType = <<"g","c","e","_","f","i","r","e","w","a","l","l","_","r","u","l","e">> THEN "gce_firewall_rule"
  ELSE IF m.resType = <<"g","a","e","_","a","p","p">> THEN
    IF NoMethod(m) THEN "TypeError"
    ELSE IF Contains(m.methodName, <<"D","e","b","u","g","I","n","s","t","a","n","c","e">>) THEN "gae_app"
    ELSE "no_rule"
  ELSE IF m.resType = <<"g","c","e","_","i","n","s","t","a","n","c","e">> THEN "gce_instance"
  ELSE IF m.resType = <<"c","l","o","u","d","_","f","u","n","c","t","i","o","n">> THEN "cloud_function"
  ELSE IF m.resType = <<"c","l","o","u","d","_","d","a","t","a","p","r","o","c","_","c","l","u","s","t","e","r">> THEN "cloud_dataproc_cluster"
  ELSE IF m.resType = <<"g","k","e","_","c","l","u","s","t","e","r">> THEN "gke_cluster"
  ELSE IF m.resType = <<"g","k","e","_","n","o","d","e","p","o","o","l">> THEN "gke_nodepool"
  ELSE IF m.resType = <<"d","a","t","a","f","l","o","w","_","s","t","e","p">> THEN
    IF NoMethod(m) THEN "TypeError"
    ELSE IF Contains(m.methodName, <<"c","r","e","a","t","e">>) THEN "dataflow_step"
    ELSE "no_rule"
  ELSE "no_rule"

\* a log without resource.type has no resources
matched_rule_needs_type(m) ==
  IF m.resType = None THEN "TypeError" ELSE table_rule(m)

matched_rule(m) ==
  IF m.resType = None THEN "no_type" ELSE table_rule(m)

Exceptions ==
  { "AttributeError", "TypeError", "IndexError", "ValidationError",
    "ResourceException", "ExtractorException" }

get_resources(m) ==
  LET rule == matched_rule(m)
  IN IF rule \in Exceptions THEN Raises(rule)
     ELSE IF rule \in {"no_type", "no_rule"} THEN Returns(<< >>)
     ELSE IF rule = "cloudsql" THEN rule_cloudsql(m)
     ELSE IF rule = "gcs_bucket" THEN rule_gcs_bucket(m)
     ELSE IF rule = "bigquery_dataset" THEN rule_bigquery_dataset(m)
     ELSE IF rule = "project" THEN rule_project(m)
     ELSE IF rule = "pubsub_subscription" THEN rule_pubsub_subscription(m)
     ELSE IF rule = "pubsub_topic" THEN rule_pubsub_topic(m)
     ELSE IF rule = "service" THEN rule_service(m)
     ELSE IF rule = "deactivate_services" THEN rule_deactivate_services(m)
     ELSE IF rule = "gce_network" THEN rule_gce_network(m)
     ELSE IF rule = "gce_subnetwork" THEN rule_gce_subnetwork(m)
     ELSE IF rule = "gce_firewall_rule" THEN rule_gce_firewall_rule(m)
     ELSE IF rule = "gae_app" THEN rule_gae_app(m)
     ELSE IF rule = "gce_instance" THEN rule_gce_instance(m)
     ELSE IF rule = "cloud_function" THEN rule_cloud_function(m)
     ELSE IF rule = "cloud_dataproc_cluster" THEN rule_cloud_dataproc_cluster(m)
     ELSE IF rule = "gke_cluster" THEN rule_gke_cluster(m)
     ELSE IF rule = "gke_nodepool" THEN rule_gke_nodepool(m)
     ELSE IF rule = "bigtable" THEN rule_bigtable(m)
     ELSE IF rule = "dataflow_step" THEN rule_dataflow_step(m)
     ELSE IF rule = "redis" THEN rule_redis(m)
     ELSE IF rule = "datafusion" THEN rule_datafusion(m)
     ELSE rule_dataform(m)

(***************************************************************************)
(* The envelopes fed to the extractor.  A field is absent (None, or the    *)
(* empty list for a list) or holds a value of the shape the audit-log      *)
(* schema gives it.                                                        *)
(***************************************************************************)

MaxDisks == 2
MaxServices == 3
MaxPools == 2

LabelKeys ==
  { "project_id", "location", "zone", "region", "database_id", "bucket_name",
    "dataset_id", "subscription_id", "topic_id", "service", "subnetwork_name",
    "function_name", "cluster_name", "nodepool_name" }

NoLabels == [k \in LabelKeys |-> None]

\* the empty object {}
EmptyObject ==
  [ptype |-> None, logName |-> None, methodName |-> None, timestamp |-> None,
   insertId |-> None, principal |-> None, resType |-> None,
   resourceName |-> None, labels |-> NoLabels, disks |-> << >>,
   serviceIds |-> << >>, serviceNames |-> << >>, bodyName |-> None,
   instanceId |-> None, nodePools |-> << >>, job_id |-> None,
   currentLocations |-> << >>]

ACTIVITY_LOG == <<"p","r","o","j","e","c","t","s","/","p","/","l","o","g","s","/","c","l","o","u","d","a","u","d","i","t",".","g","o","o","g","l","e","a","p","i","s",".","c","o","m","%","2","F","a","c","t","i","v","i","t","y">>
DATA_ACCESS_LOG == <<"p","r","o","j","e","c","t","s","/","p","/","l","o","g","s","/","c","l","o","u","d","a","u","d","i","t",".","g","o","o","g","l","e","a","p","i","s",".","c","o","m","%","2","F","d","a","t","a","_","a","c","c","e","s","s">>

LogNames ==
  { None, << >>, ACTIVITY_LOG, DATA_ACCESS_LOG,
    <<"c","l","o","u","d","a","u","d","i","t",".","g","o","o","g","l","e","a","p","i","s",".","c","o","m","%","2","F","a","c","t","i","v","i","t","y">>,
    <<"p","r","o","j","e","c","t","s","/","p","/","l","o","g","s","/","s","y","s","l","o","g">>,
    <<"p","r","o","j","e","c","t","s","/","p","/","l","o","g","s","/","c","l","o","u","d","a","u","d","i","t",".","g","o","o","g","l","e","a","p","i","s",".","c","o">>,
    <<"p","r","o","j","e","c","t","s","/","p","/","l","o","g","s","/","x","-","c","l","o","u","d","a","u","d","i","t",".","g","o","o","g","l","e","a","p","i","s",".","c","o","m","%","2","F","a","c","t","i","v","i","t","y">>,
    <<"c","l","o","u","d","a","u","d","i","t",".","g","o","o","g","l","e","a","p","i","s",".","c","o","m","/","p","r","o","j","e","c","t","s","/","p","/","l","o","g","s","/","s","y","s","l","o","g">>,
    <<"p","r","o","j","e","c","t","s","/","p","/","l","o","g","s","/","c","l","o","u","d","a","u","d","i","t",".","g","o","o","g","l","e","a","p","i","s",".","c","o","m","%","2","F","a","c","t","i","v","i","t","y","/">> }

PayloadTypes ==
  { None, AUDIT_LOG_TYPE, <<"t","y","p","e",".","g","o","o","g","l","e","a","p","i","s",".","c","o","m","/","g","o","o","g","l","e",".","c","l","o","u","d",".","a","u","d","i","t",".","A","u","d","i","t","L","o">>,
    <<"t","y","p","e",".","g","o","o","g","l","e","a","p","i","s",".","c","o","m","/","g","o","o","g","l","e",".","c","l","o","u","d",".","b","i","g","q","u","e","r","y",".","l","o","g","g","i","n","g",".","v","1",".","A","u","d","i","t","D","a","t","a">> }

TIMESTAMP == <<"2","0","1","9","-","0","8","-","0","7","T","1","6",":","2","7",":","0","9",".","5","7","5","Z">>
INSERT_ID == <<"e","1">>
PRINCIPAL == <<"u","s","e","r","@","e","x","a","m","p","l","e",".","c","o","m">>
PROJECT == <<"p">>

MethodNames ==
  { <<"S","e","t","I","a","m","P","o","l","i","c","y">>, <<"G","e","t","I","a","m","P","o","l","i","c","y">>, <<"g","o","o","g","l","e",".","i","a","m",".","v","1",".","I","A","M","P","o","l","i","c","y",".","S","e","t","I","a","m","P","o","l","i","c","y">>,
    <<"v","1",".","c","o","m","p","u","t","e",".","i","n","s","t","a","n","c","e","s",".","i","n","s","e","r","t">>, <<"b","e","t","a",".","c","o","m","p","u","t","e",".","i","n","s","t","a","n","c","e","s",".","l","i","s","t">>,
    <<"v","1",".","c","o","m","p","u","t","e",".","i","n","s","t","a","n","c","e","s",".","s","t","a","r","t">>, <<"v","1",".","c","o","m","p","u","t","e",".","i","n","s","t","a","n","c","e","s",".","d","e","l","e","t","e">>,
    <<"v","1",".","c","o","m","p","u","t","e",".","s","u","b","n","e","t","w","o","r","k","s",".","p","a","t","c","h">>, <<"v","1",".","c","o","m","p","u","t","e",".","n","e","t","w","o","r","k","s",".","s","w","i","t","c","h","T","o","C","u","s","t","o","m","M","o","d","e">>,
    <<"v","1",".","c","o","m","p","u","t","e",".","s","u","b","n","e","t","w","o","r","k","s",".","e","x","p","a","n","d","I","p","C","i","d","r","R","a","n","g","e">>, <<"s","t","o","r","a","g","e",".","b","u","c","k","e","t","s",".","u","p","d","a","t","e">>,
    <<"g","o","o","g","l","e",".","a","p","i",".","s","e","r","v","i","c","e","u","s","a","g","e",".","v","1",".","S","e","r","v","i","c","e","U","s","a","g","e",".","B","a","t","c","h","E","n","a","b","l","e","S","e","r","v","i","c","e","s">>,
    <<"g","o","o","g","l","e",".","a","p","i",".","s","e","r","v","i","c","e","u","s","a","g","e",".","v","1",".","S","e","r","v","i","c","e","U","s","a","g","e",".","D","i","s","a","b","l","e","S","e","r","v","i","c","e">>,
    <<"g","o","o","g","l","e",".","a","p","i",".","s","e","r","v","i","c","e","m","a","n","a","g","e","m","e","n","t",".","v","1",".","S","e","r","v","i","c","e","M","a","n","a","g","e","r",".","D","e","a","c","t","i","v","a","t","e","S","e","r","v","i","c","e","s">>,
    <<"g","o","o","g","l","e",".","a","p","i",".","s","e","r","v","i","c","e","m","a","n","a","g","e","m","e","n","t",".","v","1",".","S","e","r","v","i","c","e","M","a","n","a","g","e","r",".","A","c","t","i","v","a","t","e","S","e","r","v","i","c","e","s">>,
    <<"g","o","o","g","l","e",".","a","p","p","e","n","g","i","n","e",".","v","1",".","I","n","s","t","a","n","c","e","s",".","D","e","b","u","g","I","n","s","t","a","n","c","e">>,
    <<"g","o","o","g","l","e",".","c","o","n","t","a","i","n","e","r",".","v","1",".","C","l","u","s","t","e","r","M","a","n","a","g","e","r",".","C","r","e","a","t","e","C","l","u","s","t","e","r">>,
    <<"g","o","o","g","l","e",".","p","u","b","s","u","b",".","v","1",".","P","u","b","l","i","s","h","e","r",".","B","a","t","c","h","G","e","t","T","o","p","i","c","s">>,
    <<"g","o","o","g","l","e",".","e","x","a","m","p","l","e",".","v","1",".","T","h","i","n","g","s",".","B","a","t","c","h","D","e","l","e","t","e","T","h","i","n","g","s">>,
    <<"g","o","o","g","l","e",".","e","x","a","m","p","l","e",".","v","1",".","T","h","i","n","g","s",".","B","a","t","c","h">>, <<"g","o","o","g","l","e",".","e","x","a","m","p","l","e",".","v","1",".","T","h","i","n","g","s",".","S","e","t","t","l","e">>,
    <<"g","o","o","g","l","e",".","e","x","a","m","p","l","e",".","v","1",".","T","h","i","n","g","s",".","g","e","t","l","i","s","t",".">>, <<"I","n","s","e","r","t",".","s","e","t","u","p">>, <<"D","E","L","E","T","E">>,
    <<"g","o","o","g","l","e",".","e","x","a","m","p","l","e",".","v","1",".","T","h","i","n","g","s",".","u","n","d","e","l","e","t","e">>, << >> }

\* a valid audit log with its metadata, of no resource kind
ValidLog ==
  [EmptyObject EXCEPT !.ptype = AUDIT_LOG_TYPE, !.logName = ACTIVITY_LOG,
                      !.timestamp = TIMESTAMP, !.insertId = INSERT_ID,
                      !.principal = PRINCIPAL,
                      !.methodName = <<"S","e","t","I","a","m","P","o","l","i","c","y">>,
                      !.labels = [NoLabels EXCEPT !["project_id"] = PROJECT]]

\* envelopes that differ in what validation reads
EnvValidation ==
  { [body EXCEPT !.ptype = t, !.logName = n] :
      body \in {EmptyObject, ValidLog}, t \in PayloadTypes, n \in LogNames }

\* valid audit logs that differ in what the metadata is derived from
EnvMetadata ==
  { [ValidLog EXCEPT !.methodName = mn, !.timestamp = ts, !.insertId = id,
                     !.principal = pr, !.resType = k] :
      mn \in MethodNames \cup {None}, ts \in {None, TIMESTAMP},
      id \in {None, INSERT_ID}, pr \in {None, PRINCIPAL},
      k \in {None, <<"p","r","o","j","e","c","t">>} }

\* all sequences over S of length at most n
RECURSIVE SeqsUpTo(_, _)
SeqsUpTo(S, n) ==
  IF n = 0 THEN { << >> }
  ELSE LET shorter == SeqsUpTo(S, n - 1)
       IN shorter \cup { Append(s, x) : s \in shorter, x \in S }

\* compute instance logs
DiskShapes ==
  [diskName : {None, << >>, <<"d","i","s","k","-","1">>}, boot : {JTrue, JFalse, JAbsent},
   deviceName : {None, <<"p","e","r","s","i","s","t","e","n","t","-","d","i","s","k","-","0">>}]

InstanceNames ==
  { None, <<"p","r","o","j","e","c","t","s","/","p","/","z","o","n","e","s","/","u","s","-","c","e","n","t","r","a","l","1","-","a","/","i","n","s","t","a","n","c","e","s","/","v","m","-","1">>,
    <<"p","r","o","j","e","c","t","s","/","p","/","z","o","n","e","s","/","u","s","-","c","e","n","t","r","a","l","1","-","a","/","i","n","s","t","a","n","c","e","s","/","a","e","f","-","d","e","f","a","u","l","t","-","1">>,
    <<"p","r","o","j","e","c","t","s","/","p","/","z","o","n","e","s","/","u","s","-","c","e","n","t","r","a","l","1","-","a","/","i","n","s","t","a","n","c","e","s","/","a","e","t","-","d","e","f","a","u","l","t","-","1">>,
    <<"p","r","o","j","e","c","t","s","/","p","/","z","o","n","e","s","/","u","s","-","c","e","n","t","r","a","l","1","-","a","/","i","n","s","t","a","n","c","e","s","/","a","e","f","x">>,
    <<"p","r","o","j","e","c","t","s","/","p","/","z","o","n","e","s","/","u","s","-","c","e","n","t","r","a","l","1","-","a","/","i","n","s","t","a","n","c","e","s","/">> }

EnvInstance ==
  { [ValidLog EXCEPT !.resType = <<"g","c","e","_","i","n","s","t","a","n","c","e">>, !.resourceName = rn,
                     !.methodName = mn, !.disks = ds,
                     !.labels = [NoLabels EXCEPT !["project_id"] = PROJECT,
                                                 !["zone"] = z]] :
      rn \in InstanceNames,
      mn \in {<<"v","1",".","c","o","m","p","u","t","e",".","i","n","s","t","a","n","c","e","s",".","i","n","s","e","r","t">>, <<"v","1",".","c","o","m","p","u","t","e",".","i","n","s","t","a","n","c","e","s",".","s","t","o","p">>,
              None},
      z \in {None, <<"u","s","-","c","e","n","t","r","a","l","1","-","a">>},
      ds \in SeqsUpTo(DiskShapes, 1) }
  \cup
  { [ValidLog EXCEPT !.resType = <<"g","c","e","_","i","n","s","t","a","n","c","e">>, !.resourceName = rn,
                     !.methodName = <<"v","1",".","c","o","m","p","u","t","e",".","i","n","s","t","a","n","c","e","s",".","i","n","s","e","r","t">>,
                     !.disks = ds,
                     !.labels = [NoLabels EXCEPT !["project_id"] = PROJECT,
                                                 !["zone"] = <<"u","s","-","c","e","n","t","r","a","l","1","-","a">>]] :
      rn \in {<<"p","r","o","j","e","c","t","s","/","p","/","z","o","n","e","s","/","u","s","-","c","e","n","t","r","a","l","1","-","a","/","i","n","s","t","a","n","c","e","s","/","v","m","-","1">>,
              <<"p","r","o","j","e","c","t","s","/","p","/","z","o","n","e","s","/","u","s","-","c","e","n","t","r","a","l","1","-","a","/","i","n","s","t","a","n","c","e","s","/","a","e","f","-","d","e","f","a","u","l","t","-","1">>,
              <<"p","r","o","j","e","c","t","s","/","p","/","z","o","n","e","s","/","u","s","-","c","e","n","t","r","a","l","1","-","a","/","i","n","s","t","a","n","c","e","s","/">>},
      ds \in SeqsUpTo(DiskShapes, MaxDisks) }

\* service usage / service management logs
ServiceNames == { <<"a",".","g","o","o","g","l","e","a","p","i","s",".","c","o","m">>, <<"b",".","g","o","o","g","l","e","a","p","i","s",".","c","o","m">> }

ServiceMethods ==
  { <<"g","o","o","g","l","e",".","a","p","i",".","s","e","r","v","i","c","e","u","s","a","g","e",".","v","1",".","S","e","r","v","i","c","e","U","s","a","g","e",".","E","n","a","b","l","e","S","e","r","v","i","c","e">>,
    <<"g","o","o","g","l","e",".","a","p","i",".","s","e","r","v","i","c","e","u","s","a","g","e",".","v","1",".","S","e","r","v","i","c","e","U","s","a","g","e",".","B","a","t","c","h","E","n","a","b","l","e","S","e","r","v","i","c","e","s">>,
    <<"g","o","o","g","l","e",".","a","p","i",".","s","e","r","v","i","c","e","u","s","a","g","e",".","v","1",".","S","e","r","v","i","c","e","U","s","a","g","e",".","D","i","s","a","b","l","e","S","e","r","v","i","c","e">>,
    <<"g","o","o","g","l","e",".","a","p","i",".","s","e","r","v","i","c","e","m","a","n","a","g","e","m","e","n","t",".","v","1",".","S","e","r","v","i","c","e","M","a","n","a","g","e","r",".","A","c","t","i","v","a","t","e","S","e","r","v","i","c","e","s">>,
    <<"g","o","o","g","l","e",".","a","p","i",".","s","e","r","v","i","c","e","m","a","n","a","g","e","m","e","n","t",".","v","1",".","S","e","r","v","i","c","e","M","a","n","a","g","e","r",".","D","e","a","c","t","i","v","a","t","e","S","e","r","v","i","c","e","s">>,
    <<"g","o","o","g","l","e",".","l","o","n","g","r","u","n","n","i","n","g",".","O","p","e","r","a","t","i","o","n","s",".","G","e","t","O","p","e","r","a","t","i","o","n">>, None }

EnvService ==
  { [ValidLog EXCEPT !.resType = <<"a","u","d","i","t","e","d","_","r","e","s","o","u","r","c","e">>, !.resourceName = rn,
                     !.methodName = mn, !.serviceIds = ids,
                     !.serviceNames = names,
                     !.labels = [NoLabels EXCEPT !["project_id"] = PROJECT,
                                                 !["service"] = sv]] :
      rn \in {None, <<"p","r","o","j","e","c","t","s","/","p","/","s","e","r","v","i","c","e","s","/","c",".","g","o","o","g","l","e","a","p","i","s",".","c","o","m">>},
      mn \in ServiceMethods,
      ids \in SeqsUpTo(ServiceNames, MaxServices),
      names \in SeqsUpTo(ServiceNames, 1),
      sv \in {<<"s","e","r","v","i","c","e","u","s","a","g","e",".","g","o","o","g","l","e","a","p","i","s",".","c","o","m">>} }

\* CloudSQL logs: the instance id is in one of three places
EnvCloudSQL ==
  { [ValidLog EXCEPT !.resType = <<"c","l","o","u","d","s","q","l","_","d","a","t","a","b","a","s","e">>, !.methodName = mn,
                     !.bodyName = bn, !.instanceId = iid,
                     !.labels = [NoLabels EXCEPT !["project_id"] = PROJECT,
                                                 !["region"] = <<"u","s","-","e","a","s","t","1">>,
                                                 !["database_id"] = db]] :
      mn \in {<<"c","l","o","u","d","s","q","l",".","i","n","s","t","a","n","c","e","s",".","c","r","e","a","t","e">>, <<"c","l","o","u","d","s","q","l",".","i","n","s","t","a","n","c","e","s",".","u","p","d","a","t","e">>,
              <<"c","l","o","u","d","s","q","l",".","u","s","e","r","s",".","c","r","e","a","t","e">>, None},
      bn \in {None, <<"b","o","d","y","-","i","n","s","t","a","n","c","e">>},
      iid \in {None, <<"i","d","-","i","n","s","t","a","n","c","e">>},
      db \in {None, << >>, <<"p",":">>, <<"p",":","l","a","b","e","l","-","i","n","s","t","a","n","c","e">>, <<"l","a","b","e","l","-","i","n","s","t","a","n","c","e">>} }

\* GKE logs
EnvGke ==
  { [ValidLog EXCEPT !.resType = k, !.methodName = mn, !.nodePools = pools,
                     !.labels = [NoLabels EXCEPT !["project_id"] = PROJECT,
                                                 !["location"] = <<"u","s","-","e","a","s","t","1","-","b">>,
                                                 !["cluster_name"] = <<"c","1">>,
                                                 !["nodepool_name"] = np]] :
      k \in {<<"g","k","e","_","c","l","u","s","t","e","r">>, <<"g","k","e","_","n","o","d","e","p","o","o","l">>},
      mn \in {<<"g","o","o","g","l","e",".","c","o","n","t","a","i","n","e","r",".","v","1",".","C","l","u","s","t","e","r","M","a","n","a","g","e","r",".","C","r","e","a","t","e","C","l","u","s","t","e","r">>,
              <<"g","o","o","g","l","e",".","c","o","n","t","a","i","n","e","r",".","v","1",".","C","l","u","s","t","e","r","M","a","n","a","g","e","r",".","U","p","d","a","t","e","C","l","u","s","t","e","r">>, None},
      pools \in SeqsUpTo({None, <<"p","o","o","l","-","a">>, <<"p","o","o","l","-","b">>}, MaxPools),
      np \in {None, <<"p","o","o","l","-","a">>} }

\* the other kinds of the table, and kinds that are not in it
OtherMethods ==
  { None, <<"S","e","t","I","a","m","P","o","l","i","c","y">>, <<"g","o","o","g","l","e",".","i","a","m",".","v","1",".","I","A","M","P","o","l","i","c","y",".","G","e","t","I","a","m","P","o","l","i","c","y">>,
    <<"s","t","o","r","a","g","e",".","s","e","t","I","a","m","P","e","r","m","i","s","s","i","o","n","s">>, <<"s","t","o","r","a","g","e",".","b","u","c","k","e","t","s",".","d","e","l","e","t","e">>,
    <<"s","t","o","r","a","g","e",".","o","b","j","e","c","t","s",".","c","r","e","a","t","e">>,
    <<"g","o","o","g","l","e",".","c","l","o","u","d",".","b","i","g","q","u","e","r","y",".","v","2",".","D","a","t","a","s","e","t","S","e","r","v","i","c","e",".","I","n","s","e","r","t","D","a","t","a","s","e","t">>,
    <<"g","o","o","g","l","e",".","c","l","o","u","d",".","b","i","g","q","u","e","r","y",".","v","2",".","T","a","b","l","e","S","e","r","v","i","c","e",".","I","n","s","e","r","t","T","a","b","l","e">>,
    <<"g","o","o","g","l","e",".","a","p","p","e","n","g","i","n","e",".","v","1",".","I","n","s","t","a","n","c","e","s",".","D","e","b","u","g","I","n","s","t","a","n","c","e">>,
    <<"g","o","o","g","l","e",".","a","p","p","e","n","g","i","n","e",".","v","1",".","I","n","s","t","a","n","c","e","s",".","D","e","l","e","t","e","I","n","s","t","a","n","c","e">>,
    <<"g","o","o","g","l","e",".","b","i","g","t","a","b","l","e",".","a","d","m","i","n",".","v","2",".","B","i","g","t","a","b","l","e","I","n","s","t","a","n","c","e","A","d","m","i","n",".","S","e","t","I","a","m","P","o","l","i","c","y">>,
    <<"g","o","o","g","l","e",".","c","l","o","u","d",".","r","e","d","i","s",".","v","1",".","C","l","o","u","d","R","e","d","i","s",".","C","r","e","a","t","e","I","n","s","t","a","n","c","e">>,
    <<"g","o","o","g","l","e",".","c","l","o","u","d",".","d","a","t","a","f","u","s","i","o","n",".","v","1","b","e","t","a","1",".","D","a","t","a","F","u","s","i","o","n",".","C","r","e","a","t","e","I","n","s","t","a","n","c","e">>,
    <<"g","o","o","g","l","e",".","c","l","o","u","d",".","d","a","t","a","f","o","r","m",".","v","1","b","e","t","a","1",".","D","a","t","a","f","o","r","m",".","C","r","e","a","t","e","R","e","p","o","s","i","t","o","r","y">>,
    <<"d","a","t","a","f","l","o","w",".","j","o","b","s",".","c","r","e","a","t","e">>, <<"d","a","t","a","f","l","o","w",".","j","o","b","s",".","u","p","d","a","t","e","C","o","n","t","e","n","t","s">>,
    <<"v","1",".","c","o","m","p","u","t","e",".","n","e","t","w","o","r","k","s",".","i","n","s","e","r","t">> }

OtherKinds ==
  (TableKinds \ {<<"g","c","e","_","i","n","s","t","a","n","c","e">>, <<"c","l","o","u","d","s","q","l","_","d","a","t","a","b","a","s","e">>, <<"g","k","e","_","c","l","u","s","t","e","r">>,
                 <<"g","k","e","_","n","o","d","e","p","o","o","l">>})
  \cup {<<"k","8","s","_","c","l","u","s","t","e","r">>, <<"g","c","e","_","d","i","s","k">>, <<"s","e","r","v","i","c","e","_","a","c","c","o","u","n","t">>, <<"a","u","d","i","t","e","d","_","r","e","s","o","u","r","c">>,
        << >>}

FullLabels ==
  [NoLabels EXCEPT !["project_id"] = PROJECT, !["location"] = <<"u","s","-","e","a","s","t","1">>,
                   !["region"] = <<"u","s","-","e","a","s","t","1">>, !["bucket_name"] = <<"t","e","s","t","-","b","u","c","k","e","t">>,
                   !["dataset_id"] = <<"w","o","o","o">>,
                   !["subscription_id"] = <<"p","r","o","j","e","c","t","s","/","p","/","s","u","b","s","c","r","i","p","t","i","o","n","s","/","t","e","s","t","-","s","u","b","s","c","r","i","p","t","i","o","n">>,
                   !["topic_id"] = <<"p","r","o","j","e","c","t","s","/","p","/","t","o","p","i","c","s","/","t","e","s","t","-","t","o","p","i","c">>,
                   !["subnetwork_name"] = <<"e","x","a","m","p","l","e">>,
                   !["function_name"] = <<"e","x","a","m","p","l","e","_","f","u","n","c","t","i","o","n">>,
                   !["cluster_name"] = <<"t","e","s","t","-","d","a","t","a","p","r","o","c","-","c","l","u","s","t","e","r">>]

\* what the rules of the other kinds read besides the kind and the method
OtherShapes ==
  { [rn |-> None, lb |-> NoLabels, sv |-> None, locs |-> << >>],
    [rn |-> None, lb |-> FullLabels, sv |-> None, locs |-> << >>],
    [rn |-> <<"p","r","o","j","e","c","t","s","/","p","/","g","l","o","b","a","l","/","n","e","t","w","o","r","k","s","/","x","y","z">>, lb |-> FullLabels,
     sv |-> None, locs |-> << >>],
    [rn |-> <<"a","p","p","s","/","a","/","s","e","r","v","i","c","e","s","/","d","e","f","a","u","l","t","/","v","e","r","s","i","o","n","s","/","v","1","/","i","n","s","t","a","n","c","e","s","/","a","e","f","-","d","e","f","a","u","l","t","-","t","e","s","t","-","i","n","s","t","a","n","c","e">>,
     lb |-> FullLabels, sv |-> None, locs |-> << >>],
    [rn |-> <<"p","r","o","j","e","c","t","s","/","p","/","l","o","c","a","t","i","o","n","s","/","u","s","-","e","a","s","t","1","/","i","n","s","t","a","n","c","e","s","/","t","e","s","t","-","i","n","s","t","a","n","c","e">>,
     lb |-> FullLabels, sv |-> <<"d","a","t","a","f","u","s","i","o","n",".","g","o","o","g","l","e","a","p","i","s",".","c","o","m">>,
     locs |-> << <<"u","s","-","e","a","s","t","1">> >>],
    [rn |-> <<"p","r","o","j","e","c","t","s","/","p","/","l","o","c","a","t","i","o","n","s","/","u","s","-","e","a","s","t","1","/","i","n","s","t","a","n","c","e","s","/","t","e","s","t","-","i","n","s","t","a","n","c","e">>,
     lb |-> FullLabels, sv |-> <<"r","e","d","i","s",".","g","o","o","g","l","e","a","p","i","s",".","c","o","m">>, locs |-> << >>],
    [rn |-> <<"p","r","o","j","e","c","t","s","/","p","/","l","o","c","a","t","i","o","n","s","/","u","s","-","e","a","s","t","1","/","r","e","p","o","s","i","t","o","r","i","e","s","/","t","e","s","t","-","r","e","p","o","s","i","t","o","r","y">>,
     lb |-> FullLabels, sv |-> <<"d","a","t","a","f","o","r","m",".","g","o","o","g","l","e","a","p","i","s",".","c","o","m">>, locs |-> << >>],
    [rn |-> <<"p","r","o","j","e","c","t","s","/","p","/","l","o","c","a","t","i","o","n","s","/","u","s","-","e","a","s","t","1","/","r","e","p","o","s","i","t","o","r","i","e","s","/","r","/","w","o","r","k","s","p","a","c","e","s","/","t","e","s","t","-","w","o","r","k","s","p","a","c","e">>,
     lb |-> FullLabels, sv |-> <<"d","a","t","a","f","o","r","m",".","g","o","o","g","l","e","a","p","i","s",".","c","o","m">>, locs |-> << >>],
    [rn |-> <<"p","r","o","j","e","c","t","s","/","p","/","l","o","c","a","t","i","o","n","s","/","u","s","-","e","a","s","t","1","/","o","p","e","r","a","t","i","o","n","s","/","o","p","-","1">>,
     lb |-> FullLabels, sv |-> <<"d","a","t","a","f","o","r","m",".","g","o","o","g","l","e","a","p","i","s",".","c","o","m">>, locs |-> << >>] }

EnvOther ==
  { [ValidLog EXCEPT !.resType = k, !.methodName = mn, !.resourceName = sh.rn,
                     !.labels = [sh.lb EXCEPT !["service"] = sh.sv],
                     !.job_id = <<"j","o","b","-","i","d">>,
                     !.currentLocations = sh.locs] :
      k \in OtherKinds, mn \in OtherMethods, sh \in OtherShapes }

Envelopes ==
  EnvValidation \cup EnvMetadata \cup EnvInstance \cup EnvService
  \cup EnvCloudSQL \cup EnvGke \cup EnvOther

(***************************************************************************)
(* GCPAuditLog.extract as a state machine                                  *)
(***************************************************************************)

VARIABLES
  log_message,   \* the envelope of the call in progress
  pc,            \* where the call is
  ran,           \* the classmethods the call has run on the envelope, in order
  metadata,      \* what get_metadata gave
  resources,     \* what get_resources gave
  extracted      \* what the call gave to its caller

xvars == << log_message, pc, ran, metadata, resources, extracted >>

NotRun == [exc |-> "not run", val |-> << >>]


\* the extractor keeps no state between calls: one call is followed from the
\* state before it
Idle == pc = "idle"

\* GCPAuditLog.extract(log_message) is called; m is the mapping that
\* log_message is, or that the data of a pubsub message decodes to
ExtractCall(m) ==
  /\ Idle
  /\ log_message' = m
  /\ pc' = "validate"
  /\ ran' = << >>
  /\ metadata' = NotRun
  /\ resources' = NotRun
  /\ extracted' = NotRun

Validate_unchecked ==
  /\ pc = "validate"
  /\ ran' = Append(ran, "is_audit_log")
  /\ pc' = "metadata"
  /\ UNCHANGED << log_message, metadata, resources, extracted >>

\* if not cls.is_audit_log(message_data): raise ExtractorException
Validate ==
  /\ pc = "validate"
  /\ ran' = Append(ran, "is_audit_log")
  /\ IF is_audit_log(log_message)
     THEN pc' = "metadata" /\ UNCHANGED extracted
     ELSE pc' = "raised" /\ extracted' = Raises("ExtractorException")
  /\ UNCHANGED << log_message, metadata, resources >>

\* metadata = cls.get_metadata(message_data)
DeriveMetadata ==
  /\ pc = "metadata"
  /\ ran' = Append(ran, "get_metadata")
  /\ metadata' = get_metadata(log_message)
  /\ IF metadata'.exc = "none"
     THEN pc' = "resources" /\ UNCHANGED extracted
     ELSE pc' = "raised" /\ extracted' = Raises(metadata'.exc)
  /\ UNCHANGED << log_message, resources >>

\* resources = cls.get_resources(message_data); return ExtractedResources(...)
ResolveResources ==
  /\ pc = "resources"
  /\ ran' = Append(ran, "get_resources")
  /\ resources' = get_resources(log_message)
  /\ IF resources'.exc = "none"
     THEN /\ pc' = "returned"
          /\ extracted' = Returns([resources |-> resources'.val,
                                   metadata |-> metadata.val])
     ELSE pc' = "raised" /\ extracted' = Raises(resources'.exc)
  /\ UNCHANGED << log_message, metadata >>

\* GCPAuditLog.get_resources(message) called on its own
GetResourcesCall(m) ==
  /\ Idle
  /\ log_message' = m
  /\ ran' = << "get_resources" >>
  /\ metadata' = NotRun
  /\ resources' = get_resources(m)
  /\ extracted' = NotRun
  /\ pc' = IF resources'.exc = "none" THEN "returned" ELSE "raised"

XNext ==
  \/ Idle /\ \E m \in Envelopes : ExtractCall(m)
  \/ Validate
  \/ DeriveMetadata
  \/ ResolveResources
  \/ Idle /\ \E m \in Envelopes : GetResourcesCall(m)

(***************************************************************************)
(* PythonPolicyEngine                                                      *)
(***************************************************************************)

MaxPolicies == 2

\* the evaluate calls one behaviour follows
MaxCalls == 2

\* the definitions a package's __init__.py makes
MaxMembers == 3

BUCKET_TYPE == "storage.googleapis.com/Bucket"
INSTANCE_TYPE == "compute.googleapis.com/Instance"

\* the resources handed to evaluate: resource.type() is what the engine reads
Resources == { [name |-> "r1", type |-> BUCKET_TYPE], [name |-> "r2", type |-> INSTANCE_TYPE] }

\* an EvaluationResult a policy's evaluate may build
EvaluationResults ==
  { [compliant |-> TRUE, remediable |-> FALSE, policy_attributes |-> {},
     evaluation_attributes |-> {<< "excluded", FALSE >>}],
    [compliant |-> FALSE, remediable |-> TRUE,
     policy_attributes |-> {<< "severity", "high" >>},
     evaluation_attributes |-> {}] }

\* evaluation_attributes is Optional: a mapping that is None (no key of a
\* mapping of the model is "None")
NoneAttributes == {<< "None", "None" >>}

\* EvaluationResult(compliant=True, remediable=True, evaluation_attributes=None)
NoneResult ==
  [compliant |-> TRUE, remediable |-> TRUE, policy_attributes |-> {},
   evaluation_attributes |-> NoneAttributes]

\* what a method of a policy class does when called: it is not defined
\* ("absent"), returns a value, or raises
Raise == "raise"
Absent == "absent"

\* A policy class: the attributes the engine looks for and what its methods
\* do.  should_evaluate_policy returns a true or a false value; evaluate
\* returns an EvaluationResult (result) or something else; compliant and
\* excluded return True, False or another value.
\* The class attributes policies() reads: description is there, and
\* policy_attributes is not, unless a class is written otherwise.
PolicyClass(applies_to, should, evaluate, result, compliant, excluded, remediate) ==
  [isclass |-> TRUE, has_applies_to |-> "list",
   applies_to |-> applies_to, should_evaluate_policy |-> should,
   evaluate |-> evaluate, result |-> result, compliant |-> compliant,
   excluded |-> excluded, remediate |-> remediate,
   description |-> "a policy", has_policy_attributes |-> FALSE,
   policy_attributes |-> {}]

\* the class attribute policy_attributes = {"severity": "high"}
StaticAttributes == {<< "severity", "high" >>}

WithPolicyAttributes(cls) ==
  [cls EXCEPT !.has_policy_attributes = TRUE, !.policy_attributes = StaticAttributes]

\* a class without a description attribute
WithoutDescription(cls) == [cls EXCEPT !.description = Absent]

AppliesTo == { << BUCKET_TYPE >>, << BUCKET_TYPE, INSTANCE_TYPE >>, << INSTANCE_TYPE >> }

AResult == CHOOSE r \in EvaluationResults : r.compliant

PolicyClasses ==
  \* policies of the evaluate protocol, with and without a pre-filter
  { PolicyClass(<< BUCKET_TYPE >>, s, e, AResult, Absent, Absent, "ok") :
      s \in {"true", "false", Raise}, e \in {"result", Raise} }
  \cup
  { PolicyClass(<< BUCKET_TYPE >>, Absent, e, AResult, Absent, Absent, "ok") :
      e \in {"other", Raise} }
  \cup
  { PolicyClass(a, Absent, "result", r, Absent, Absent, "ok") :
      a \in AppliesTo, r \in EvaluationResults }
  \cup
  \* a policy with both protocols, a policy with neither
  { PolicyClass(<< BUCKET_TYPE >>, Absent, "result", AResult, "False", "True", Absent),
    PolicyClass(<< BUCKET_TYPE >>, Absent, Absent, AResult, Absent, Absent, Absent) }
  \cup
  \* policies of the legacy protocol
  { PolicyClass(<< BUCKET_TYPE, INSTANCE_TYPE >>, Absent, Absent, AResult,
                cx[1], cx[2], Absent) :
      cx \in { << "True", "True" >>, << "True", "False" >>, << "False", "False" >>,
               << "other", "other" >>, << Raise, "False" >>, << "True", Raise >>,
               << "True", Absent >> } }
  \cup
  { PolicyClass(<< INSTANCE_TYPE >>, "false", Absent, AResult, "True", "False", Raise),
    PolicyClass(<< INSTANCE_TYPE >>, "true", Absent, AResult, "False", "True", "ok") }
  \cup
  \* policies whose remediate raises; policies with static attributes, of
  \* either protocol; a policy without description; an EvaluationResult
  \* without a mapping of attributes; an evaluate that returns an Evaluation
  { PolicyClass(<< BUCKET_TYPE, INSTANCE_TYPE >>, Absent, "result", AResult,
                Absent, Absent, Raise),
    WithPolicyAttributes(
      PolicyClass(<< BUCKET_TYPE >>, Absent, Absent, AResult, "False", "False", "ok")),
    WithPolicyAttributes(
      PolicyClass(<< BUCKET_TYPE >>, Absent, "result",
                  CHOOSE r \in EvaluationResults : ~r.compliant,
                  Absent, Absent, "ok")),
    WithoutDescription(
      PolicyClass(<< INSTANCE_TYPE >>, Absent, "result", AResult, Absent, Absent, "ok")),
    PolicyClass(<< BUCKET_TYPE >>, Absent, "result", NoneResult, Absent, Absent, "ok"),
    PolicyClass(<< INSTANCE_TYPE >>, Absent, "evaluation", AResult, Absent, Absent, "ok") }

\* the names a package gives its members, in the order of sorted()
PolicyNames == << "PolicyA", "PolicyB", "PolicyC", "PolicyD" >>

\* an entry of the dict _policies
Entry(name, cls) == [name |-> name, cls |-> cls]

\* the registries _load_policies can build: name -> class, kept in the order
\* of insertion, which is the order of the names; the names of a registry
\* are taken to be the first ones
Registries ==
  UNION { { [i \in 1..n |-> Entry(PolicyNames[i], f[i])] : f \in [1..n -> PolicyClasses] } :
          n \in 0..MaxPolicies }

\* the calls one policy's turn of the loop makes, and what comes of them
Call(name, method, outcome) == [policy |-> name, method |-> method, outcome |-> outcome]

Evaluation(resource, policy_id, r) ==
  [resource |-> resource, engine |-> "self", policy_id |-> policy_id,
   compliant |-> r.compliant, remediable |-> r.remediable,
   policy_attributes |-> r.policy_attributes,
   evaluation_attributes |-> r.evaluation_attributes]

Turn(calls, outcome, val) == [calls |-> calls, outcome |-> outcome, val |-> val]

NoEvaluation == << >>

_legacy_eval_no_flag(resource, name, cls) ==
  LET c == Call(name, "compliant", cls.compliant)
      x == Call(name, "excluded", cls.excluded)
  IN IF cls.compliant = Absent THEN Turn(<< >>, "AttributeError", NoEvaluation)
     ELSE IF cls.compliant = Raise THEN Turn(<< c >>, "PolicyError", NoEvaluation)
     ELSE IF cls.excluded = Absent THEN Turn(<< c >>, "AttributeError", NoEvaluation)
     ELSE IF cls.excluded = Raise THEN Turn(<< c, x >>, "PolicyError", NoEvaluation)
     ELSE Turn(<< c, x >>, "evaluation",
               Evaluation(resource, name,
                          [compliant |-> cls.compliant = "True",
                           remediable |-> cls.remediate /= Absent,
                           policy_attributes |-> {},
                           evaluation_attributes |-> {}]))

\* _legacy_eval(resource, policy_name, policy_cls)
_legacy_eval(resource, name, cls) ==
  LET c == Call(name, "compliant", cls.compliant)
      x == Call(name, "excluded", cls.excluded)
  IN IF cls.compliant = Absent THEN Turn(<< >>, "AttributeError", NoEvaluation)
     ELSE IF cls.compliant = Raise THEN Turn(<< c >>, "PolicyError", NoEvaluation)
     ELSE IF cls.excluded = Absent THEN Turn(<< c >>, "AttributeError", NoEvaluation)
     ELSE IF cls.excluded = Raise THEN Turn(<< c, x >>, "PolicyError", NoEvaluation)
     ELSE Turn(<< c, x >>, "evaluation",
               Evaluation(resource, name,
                          [compliant |-> cls.compliant = "True",
                           remediable |-> cls.remediate /= Absent,
                           policy_attributes |-> {},
                           evaluation_attributes |->
                             {<< "excluded", cls.excluded = "True" >>}]))

protocol_prefers_legacy(resource, name, cls) ==
  IF cls.compliant = Absent /\ cls.evaluate /= Absent
  THEN LET e == Call(name, "evaluate", cls.evaluate)
       IN IF cls.evaluate = Raise THEN Turn(<< e >>, "PolicyError", NoEvaluation)
          ELSE IF cls.evaluate /= "result"
          THEN Turn(<< e >>, "ValueError", NoEvaluation)
          ELSE Turn(<< e >>, "evaluation", Evaluation(resource, name, cls.result))
  ELSE _legacy_eval(resource, name, cls)

\* the evaluation protocol of one policy: evaluate if the class has it, the
\* legacy pair otherwise
protocol(resource, name, cls) ==
  IF cls.evaluate /= Absent
  THEN LET e == Call(name, "evaluate", cls.evaluate)
       IN IF cls.evaluate = Raise THEN Turn(<< e >>, "PolicyError", NoEvaluation)
          ELSE IF cls.evaluate = "evaluation"
          THEN \* an Evaluation is an EvaluationResult; asdict gives resource,
               \* engine and policy_id a second time
               Turn(<< e >>, "TypeError", NoEvaluation)
          ELSE IF cls.evaluate /= "result"
          THEN Turn(<< e >>, "ValueError", NoEvaluation)
          ELSE Turn(<< e >>, "evaluation", Evaluation(resource, name, cls.result))
  ELSE _legacy_eval(resource, name, cls)

try_body_ignores_filter(resource, name, cls) ==
  LET s == Call(name, "should_evaluate_policy", cls.should_evaluate_policy)
      p == protocol(resource, name, cls)
  IN IF cls.should_evaluate_policy = Absent THEN p
     ELSE IF cls.should_evaluate_policy = Raise
     THEN Turn(<< s >>, "PolicyError", NoEvaluation)
     ELSE Turn(<< s >> \o p.calls, p.outcome, p.val)

\* the body of the try of one turn of the loop
try_body(resource, name, cls) ==
  LET s == Call(name, "should_evaluate_policy", cls.should_evaluate_policy)
      p == protocol(resource, name, cls)
  IN IF cls.should_evaluate_policy = Absent THEN p
     ELSE IF cls.should_evaluate_policy = Raise
     THEN Turn(<< s >>, "PolicyError", NoEvaluation)
     ELSE IF cls.should_evaluate_policy = "false"
     THEN Turn(<< s >>, "skipped", NoEvaluation)
     ELSE Turn(<< s >> \o p.calls, p.outcome, p.val)

\* except Exception: every exception of policy code is an Exception
PolicyExceptions == { "PolicyError", "ValueError", "AttributeError", "TypeError" }

caught_none(exc) == FALSE

caught(exc) == exc \in PolicyExceptions

\* matched_policies: the entries whose applies_to holds resource.type(), in
\* the order of the registry
matched_policies_all(registry, resource) == [i \in 1..Len(registry) |-> i]

matched_policies(registry, resource) ==
  SelectSeq([i \in 1..Len(registry) |-> i],
            LAMBDA i : resource.type \in Elems(registry[i].cls.applies_to))

(***************************************************************************)
(* Policy discovery, policies(), remediate, and the Evaluation record      *)
(***************************************************************************)

\* What a package's __init__.py binds a name to: a policy class, or
\* something the filter of _load_policies passes over.
AFunction(cls) == [cls EXCEPT !.isclass = FALSE]
WithoutAppliesTo(cls) == [cls EXCEPT !.has_applies_to = "missing"]
AppliesToString(cls) == [cls EXCEPT !.has_applies_to = "not a list"]

APolicy ==
  PolicyClass(<< BUCKET_TYPE >>, Absent, "result", AResult, Absent, Absent, "ok")

\* the classes the packages of the model define
PackageClasses ==
  { APolicy,
    PolicyClass(<< BUCKET_TYPE, INSTANCE_TYPE >>, Absent, Absent, AResult,
                "True", "False", Absent),
    WithoutDescription(
      PolicyClass(<< INSTANCE_TYPE >>, Absent, "result", AResult, Absent, Absent, "ok")) }

PackageObjects ==
  PackageClasses
  \cup { AFunction(APolicy), WithoutAppliesTo(APolicy), AppliesToString(APolicy) }

\* the names the packages of the model use
PackageNames == { "PolicyA", "PolicyB", "PolicyC" }

\* a definition of the package: exec_module runs them in order
Definition(name, obj) == [name |-> name, obj |-> obj]

Packages ==
  UNION { [1..n -> { Definition(nm, o) : nm \in PackageNames, o \in PackageObjects }] :
          n \in 0..MaxMembers }

\* the module's namespace after exec_module: a name is bound to what its
\* last definition gave it
Defined(package, name) == \E i \in 1..Len(package) : package[i].name = name

Bound(package, name) ==
  LET last == CHOOSE i \in 1..Len(package) :
                /\ package[i].name = name
                /\ \A j \in (i + 1)..Len(package) : package[j].name /= name
  IN package[last].obj

\* inspect.isclass(obj) and hasattr(obj, "applies_to") and
\* isinstance(obj.applies_to, list)
IsPolicy(obj) == obj.isclass /\ obj.has_applies_to = "list"

\* _load_policies: inspect.getmembers lists the namespace sorted by name
_load_policies(package) ==
  LET names == SelectSeq(PolicyNames,
                         LAMBDA nm : Defined(package, nm) /\ IsPolicy(Bound(package, nm)))
  IN [i \in 1..Len(names) |-> Entry(names[i], Bound(package, names[i]))]

\* Policy(policy_id, engine, applies_to, description, policy_attributes)
Policy(entry) ==
  [policy_id |-> entry.name, engine |-> "self",
   applies_to |-> entry.cls.applies_to, description |-> entry.cls.description,
   policy_attributes |->
     IF entry.cls.has_policy_attributes THEN entry.cls.policy_attributes ELSE {}]

\* policies(): policy_cls.description is read without a default
policies(registry) ==
  IF \E i \in 1..Len(registry) : registry[i].cls.description = Absent
  THEN Raises("AttributeError")
  ELSE Returns([i \in 1..Len(registry) |-> Policy(registry[i])])

\* self._policies[policy_id]
Registered(registry, policy_id) ==
  \E i \in 1..Len(registry) : registry[i].name = policy_id

Lookup(registry, policy_id) ==
  registry[CHOOSE i \in 1..Len(registry) : registry[i].name = policy_id].cls

remediate_unchecked(registry, res, policy_id) ==
  IF ~Registered(registry, policy_id) THEN Turn(<< >>, "returned", NoEvaluation)
  ELSE LET cls == Lookup(registry, policy_id)
           c == Call(policy_id, "remediate", cls.remediate)
       IN IF cls.remediate = Absent THEN Turn(<< >>, "AttributeError", NoEvaluation)
          ELSE IF cls.remediate = Raise THEN Turn(<< c >>, "PolicyError", NoEvaluation)
          ELSE Turn(<< c >>, "returned", NoEvaluation)

\* PythonPolicyEngine.remediate(resource, policy_id): nothing is caught
remediate(registry, res, policy_id) ==
  IF ~Registered(registry, policy_id) THEN Turn(<< >>, "KeyError", NoEvaluation)
  ELSE LET cls == Lookup(registry, policy_id)
           c == Call(policy_id, "remediate", cls.remediate)
       IN IF cls.remediate = Absent THEN Turn(<< >>, "AttributeError", NoEvaluation)
          ELSE IF cls.remediate = Raise THEN Turn(<< c >>, "PolicyError", NoEvaluation)
          ELSE Turn(<< c >>, "returned", NoEvaluation)

\* the arguments Evaluation.remediate hands to engine.remediate
RemediateArgs(res, policy_id) == [resource |-> res, policy_id |-> policy_id]

Evaluation_remediate_args_first(registry, ev) ==
  RemediateArgs(ev.resource, registry[1].name)

\* Evaluation.remediate(): self.engine.remediate(self.resource, self.policy_id)
Evaluation_remediate_args(registry, ev) == RemediateArgs(ev.resource, ev.policy_id)

\* Evaluation.excluded: evaluation_attributes.get("excluded", False)
excluded_get(ev) ==
  IF ev.evaluation_attributes = NoneAttributes THEN Raises("AttributeError")
  ELSE IF \E a \in ev.evaluation_attributes : a[1] = "excluded"
  THEN Returns((CHOOSE a \in ev.evaluation_attributes : a[1] = "excluded")[2])
  ELSE Returns(FALSE)

\* Evaluation.excluded = value: evaluation_attributes["excluded"] = value
excluded_set(ev, value) ==
  IF ev.evaluation_attributes = NoneAttributes THEN ev
  ELSE [ev EXCEPT !.evaluation_attributes =
          {a \in @ : a[1] /= "excluded"} \cup {<< "excluded", value >>}]

VARIABLES
  _policies,     \* the engine's registry
  epc,           \* where the evaluate call is
  resource,      \* the resource of the call
  matched,       \* matched_policies of the call
  turn,          \* the turn of the loop the call is at
  evals,         \* the evaluations built so far, then returned and held
  calls,         \* the calls made on policy classes, with what they did
  printed,       \* the policies a print was made for
  escaped,       \* the exception that left evaluate, "none" if none did
  package,       \* the definitions of the package the engine is built on
  listed,        \* what policies() gave
  history,       \* the evaluate calls that returned: resource and result
  op             \* the call made after evaluate returned, and what it gave

evars ==
  << _policies, epc, resource, matched, turn, evals, calls, printed, escaped,
     package, listed, history, op >>

NoResource == [name |-> "none", type |-> "none"]

NoOp == [do |-> "none"]

policy_name(i) == _policies[i].name

\* the package whose definitions are the entries of a registry
PackageOf(registry) ==
  [i \in 1..Len(registry) |-> Definition(registry[i].name, registry[i].cls)]

\* PythonPolicyEngine(package_path): __init__ loads the policies
Construct ==
  /\ epc = "new"
  /\ _policies' = _load_policies(package)
  /\ epc' = "idle"
  /\ UNCHANGED << resource, matched, turn, evals, calls, printed, escaped,
                  package, listed, history, op >>

\* policies() is called
PoliciesCall ==
  /\ epc = "idle"
  /\ listed = NotRun
  /\ listed' = policies(_policies)
  /\ UNCHANGED << _policies, epc, resource, matched, turn, evals, calls, printed,
                  escaped, package, history, op >>

\* evaluate(resource) is called: the matching policies are selected
EvaluateCall(r) ==
  /\ epc = "idle"
  /\ resource' = r
  /\ matched' = matched_policies(_policies, r)
  /\ turn' = 1
  /\ evals' = << >>
  /\ epc' = "loop"
  /\ UNCHANGED << _policies, calls, printed, escaped, package, listed, history, op >>

EvaluatePolicy_puts_first ==
  /\ epc = "loop"
  /\ turn <= Len(matched)
  /\ LET i == matched[turn]
         t == try_body(resource, policy_name(i), _policies[i].cls)
     IN /\ calls' = calls \o t.calls
        /\ IF t.outcome = "evaluation"
           THEN /\ evals' = << t.val >> \o evals
                /\ turn' = turn + 1
                /\ UNCHANGED << printed, escaped, epc >>
           ELSE /\ printed' = Append(printed, policy_name(i))
                /\ turn' = turn + 1
                /\ UNCHANGED << evals, escaped, epc >>
  /\ UNCHANGED << _policies, resource, matched, package, listed, history, op >>

\* one turn of the loop: the try and its except
EvaluatePolicy ==
  /\ epc = "loop"
  /\ turn <= Len(matched)
  /\ LET i == matched[turn]
         t == try_body(resource, policy_name(i), _policies[i].cls)
     IN /\ calls' = calls \o t.calls
        /\ IF t.outcome = "evaluation"
           THEN /\ evals' = Append(evals, t.val)
                /\ turn' = turn + 1
                /\ UNCHANGED << printed, escaped, epc >>
           ELSE IF t.outcome = "skipped" \/ caught(t.outcome)
           THEN /\ printed' = Append(printed, policy_name(i))
                /\ turn' = turn + 1
                /\ UNCHANGED << evals, escaped, epc >>
           ELSE /\ escaped' = t.outcome
                /\ epc' = "raised"
                /\ UNCHANGED << evals, printed, turn >>
  /\ UNCHANGED << _policies, resource, matched, package, listed, history, op >>

\* return evals
EvaluateReturn ==
  /\ epc = "loop"
  /\ turn > Len(matched)
  /\ epc' = "returned"
  /\ history' = Append(history, [resource |-> resource, evals |-> evals])
  /\ UNCHANGED << _policies, resource, matched, turn, evals, calls, printed,
                  escaped, package, listed, op >>

\* evaluate(resource) is called once more, after an earlier call returned
EvaluateAgain(r) ==
  /\ epc = "returned"
  /\ Len(history) < MaxCalls
  /\ resource' = r
  /\ matched' = matched_policies(_policies, r)
  /\ turn' = 1
  /\ evals' = << >>
  /\ epc' = "loop"
  /\ UNCHANGED << _policies, calls, printed, escaped, package, listed, history, op >>

\* the policy ids a caller may ask remediation of
PolicyIds == Elems(PolicyNames) \cup {"NoSuchPolicy"}

Outcome_swallows(t) == Returns(None)

\* what a call that ended gave its caller
Outcome(t) == IF t.outcome = "returned" THEN Returns(None) ELSE Raises(t.outcome)

\* engine.remediate(r, policy_id) is called
RemediateCall(r, policy_id) ==
  /\ epc \in {"idle", "returned"}
  /\ LET t == remediate(_policies, r, policy_id)
     IN /\ calls' = calls \o t.calls
        /\ op' = [do |-> "remediate", resource |-> r, policy_id |-> policy_id,
                  outcome |-> Outcome(t)]
  /\ epc' = "done"
  /\ UNCHANGED << _policies, resource, matched, turn, evals, printed, escaped,
                  package, listed, history >>

\* remediate() is called on the k-th Evaluation that evaluate returned
EvaluationRemediate(k) ==
  /\ epc = "returned"
  /\ k \in 1..Len(evals)
  /\ LET args == Evaluation_remediate_args(_policies, evals[k])
         t == remediate(_policies, args.resource, args.policy_id)
     IN /\ calls' = calls \o t.calls
        /\ op' = [do |-> "Evaluation.remediate", on |-> k,
                  resource |-> args.resource, policy_id |-> args.policy_id,
                  outcome |-> Outcome(t)]
  /\ epc' = "done"
  /\ UNCHANGED << _policies, resource, matched, turn, evals, printed, escaped,
                  package, listed, history >>

ExcludedGet_setdefault(k) ==
  /\ epc = "returned"
  /\ k \in 1..Len(evals)
  /\ op' = [do |-> "excluded", on |-> k, outcome |-> excluded_get(evals[k])]
  /\ evals' = [evals EXCEPT ![k] = excluded_set(@, excluded_get(evals[k]).val = TRUE)]
  /\ epc' = "done"
  /\ UNCHANGED << _policies, resource, matched, turn, calls, printed,
                  escaped, package, listed, history >>

\* the excluded property of the k-th Evaluation is read
ExcludedGet(k) ==
  /\ epc = "returned"
  /\ k \in 1..Len(evals)
  /\ op' = [do |-> "excluded", on |-> k, outcome |-> excluded_get(evals[k])]
  /\ epc' = "done"
  /\ UNCHANGED << _policies, resource, matched, turn, evals, calls, printed,
                  escaped, package, listed, history >>

\* the excluded property of the k-th Evaluation is assigned
ExcludedSet(k, value) ==
  /\ epc = "returned"
  /\ k \in 1..Len(evals)
  /\ evals' = [evals EXCEPT ![k] = excluded_set(@, value)]
  /\ op' = [do |-> "excluded.setter", on |-> k, value |-> value,
            outcome |-> IF evals[k].evaluation_attributes = NoneAttributes
                        THEN Raises("TypeError") ELSE Returns(None)]
  /\ epc' = "done"
  /\ UNCHANGED << _policies, resource, matched, turn, calls, printed, escaped,
                  package, listed, history >>

ENext ==
  \/ \E r \in Resources : EvaluateCall(r)
  \/ EvaluatePolicy
  \/ EvaluateReturn

\* the policy classes of the engines whose use after evaluate is followed
SessionClasses ==
  { APolicy,
    PolicyClass(<< BUCKET_TYPE >>, Absent, "result", NoneResult, Absent, Absent, "ok"),
    PolicyClass(<< BUCKET_TYPE, INSTANCE_TYPE >>, Absent, Absent, AResult,
                "True", "False", Absent),
    PolicyClass(<< BUCKET_TYPE, INSTANCE_TYPE >>, Absent, "result", AResult,
                Absent, Absent, Raise),
    PolicyClass(<< INSTANCE_TYPE >>, "false", Absent, AResult, "True", "False", Raise),
    PolicyClass(<< BUCKET_TYPE >>, "true", Raise, AResult, Absent, Absent, "ok"),
    WithPolicyAttributes(
      PolicyClass(<< BUCKET_TYPE >>, Absent, "result",
                  CHOOSE r \in EvaluationResults : ~r.compliant,
                  Absent, Absent, "ok")) }

SessionRegistries ==
  { reg \in Registries : \A i \in 1..Len(reg) : reg[i].cls \in SessionClasses }

\* an engine in use: evaluate calls, then a call on the engine or on an
\* Evaluation it returned
SNext ==
  \/ \E r \in Resources : EvaluateCall(r)
  \/ \E r \in Resources : EvaluateAgain(r)
  \/ EvaluatePolicy
  \/ EvaluateReturn
  \/ \E r \in Resources, id \in PolicyIds : RemediateCall(r, id)
  \/ \E k \in 1..MaxPolicies : EvaluationRemediate(k)
  \/ \E k \in 1..MaxPolicies : ExcludedGet(k)
  \/ \E k \in 1..MaxPolicies, v \in BOOLEAN : ExcludedSet(k, v)

\* discovery and listing
LNext ==
  \/ Construct
  \/ PoliciesCall


(***************************************************************************)
(* MicromanagerEvaluationRequest: a payload of the asset inventory in a    *)
(* message of the queue                                                    *)
(***************************************************************************)

dict_update_keeps(d, other) ==
  [k \in DOMAIN d \cup DOMAIN other |-> IF k \in DOMAIN d THEN d[k] ELSE other[k]]

\* d.update(other): the keys of other are set in d
dict_update(d, other) ==
  [k \in DOMAIN d \cup DOMAIN other |-> IF k \in DOMAIN other THEN other[k] ELSE d[k]]

\* PubsubMessageMetadata(...).dict() of a message
get_pubsub_message_metadata(msg) ==
  [publish_time |-> msg.publish_time,
   message_id |-> msg.message_id,
   attributes |-> msg.attributes]

\* message_data.get("metadata") or {}: the payload's metadata is absent, null
\* or a mapping
metadata_or_empty(payload) ==
  IF payload.metadata.kind /= "dict" \/ DOMAIN payload.metadata.dict = {}
  THEN << >>
  ELSE payload.metadata.dict

\* the asset types the registry of resource types knows
RegisteredAssetTypes ==
  { <<"s","t","o","r","a","g","e",".","g","o","o","g","l","e","a","p","i","s",".","c","o","m","/","B","u","c","k","e","t">>, <<"c","o","m","p","u","t","e",".","g","o","o","g","l","e","a","p","i","s",".","c","o","m","/","I","n","s","t","a","n","c","e">> }

\* GoogleAPIResource.from_cai_data: the resource of a full name and an asset
\* type, an error for a type that is not registered
from_cai_data(name, asset_type, project_id) ==
  IF asset_type \in RegisteredAssetTypes
  THEN Returns([resource_type |-> asset_type, name |-> name, project_id |-> project_id])
  ELSE Raises("ResourceException")

\* MicromanagerMetadata(**metadata): publish_time and message_id are required,
\* other keys are kept
MicromanagerMetadata(md) ==
  IF {"publish_time", "message_id"} \subseteq DOMAIN md
  THEN Returns(md)
  ELSE Raises("ValidationError")

\* the metadata extract builds
micromanager_metadata(msg) ==
  dict_update(metadata_or_empty(msg.data), get_pubsub_message_metadata(msg))

\* ExtractedResources(resources=[resource], metadata=metadata)
micromanager_extract(msg) ==
  LET message_data == msg.data
      built == from_cai_data(message_data.name, message_data.asset_type,
                             message_data.project_id)
      md == MicromanagerMetadata(micromanager_metadata(msg))
  IN IF built.exc /= "none" THEN Raises(built.exc)
     ELSE IF md.exc /= "none" THEN Raises(md.exc)
     ELSE Returns([resources |-> << built.val >>, metadata |-> md.val])

\* the metadata a payload may carry
PayloadMetadata ==
  { [kind |-> "absent", dict |-> << >>],
    [kind |-> "null", dict |-> << >>],
    [kind |-> "dict", dict |-> << >>],
    [kind |-> "dict", dict |-> [src |-> <<"s","c","a","n">>]],
    [kind |-> "dict", dict |-> [message_id |-> <<"m","0">>]],
    [kind |-> "dict", dict |-> [src |-> <<"s","c","a","n">>, message_id |-> <<"m","0">>]],
    [kind |-> "dict", dict |-> [src |-> <<"s","c","a","n">>, publish_time |-> <<"t","0">>,
                                attributes |-> {<< "from", "payload" >>}]] }

\* json.loads(message.data): the payloads
Payloads ==
  [name : { <<"/","/","s","t","o","r","a","g","e",".","g","o","o","g","l","e","a","p","i","s",".","c","o","m","/","b","1">>, <<"/","/","c","o","m","p","u","t","e",".","g","o","o","g","l","e","a","p","i","s",".","c","o","m","/","i","1">> },
   asset_type : RegisteredAssetTypes \cup { <<"c","l","o","u","d","f","a","k","e","s","e","r","v","i","c","e",".","g","o","o","g","l","e","a","p","i","s",".","c","o","m","/","W","i","d","g","e","t">> },
   project_id : { None, <<"p","1">> },
   metadata : PayloadMetadata]

\* the messages of the queue
Messages ==
  [data : Payloads,
   publish_time : { <<"t","1">> },
   message_id : { <<"m","0">>, <<"m","1">> },
   attributes : { {}, {<< "from", "queue" >>} }]

NoMessage ==
  [data |-> [name |-> None, asset_type |-> None, project_id |-> None,
             metadata |-> [kind |-> "absent", dict |-> << >>]],
   publish_time |-> None, message_id |-> None, attributes |-> {}]

VARIABLES
  message,       \* the message of the queue handed to extract
  threads,       \* the threads at work: where each is and what it holds
  counter,       \* PythonPolicyEngine.counter
  engines,       \* the engines constructed
  api_resource   \* a Resource: its resource_data and what it has cached

tvars == << message, threads, counter, engines, api_resource >>

\* MicromanagerEvaluationRequest.extract(message) is called
MicromanagerCall(msg) ==
  /\ pc = "idle"
  /\ message' = msg
  /\ pc' = "loaded"
  /\ UNCHANGED << log_message, ran, metadata, resources, extracted >>

\* the payload's metadata and the fields of the message are put together
MicromanagerOverlay ==
  /\ pc = "loaded"
  /\ metadata' = Returns(micromanager_metadata(message))
  /\ pc' = "overlaid"
  /\ UNCHANGED << message, log_message, ran, resources, extracted >>

\* the resource is built and the result returned
MicromanagerReturn ==
  /\ pc = "overlaid"
  /\ resources' = from_cai_data(message.data.name, message.data.asset_type,
                                message.data.project_id)
  /\ extracted' = micromanager_extract(message)
  /\ pc' = "done"
  /\ UNCHANGED << message, log_message, ran, metadata >>

MNext ==
  \/ \E msg \in Messages : MicromanagerCall(msg)
  \/ MicromanagerOverlay
  \/ MicromanagerReturn

\* no Resource yet
NoRes == [made |-> FALSE]

(***************************************************************************)
(* One engine shared by threads that call evaluate                         *)
(***************************************************************************)

MaxThreads == 2

Threads == 1..MaxThreads

\* "rpe.plugins.policies.py_" + str(counter)
package_name(n) == << "rpe.plugins.policies.py_", n >>

\* the items of matched_policies: the dict evaluate builds holds the name and
\* the class of each matching policy
matched_items(registry, r) ==
  LET ids == matched_policies(registry, r)
  IN [k \in 1..Len(ids) |-> registry[ids[k]]]

RECURSIVE evaluate_from(_, _, _)
evaluate_from(items, r, k) ==
  IF k > Len(items) THEN << >>
  ELSE LET t == try_body(r, items[k].name, items[k].cls)
       IN (IF t.outcome = "evaluation" THEN << t.val >> ELSE << >>)
          \o evaluate_from(items, r, k + 1)

\* evaluate(resource) run alone on a registry: the evals it returns
evaluate(registry, r) == evaluate_from(matched_items(registry, r), r, 1)

\* a thread that has not called yet
IdleThread ==
  [tpc |-> "idle", resource |-> NoResource, items |-> << >>, turn |-> 0,
   evals |-> << >>]

\* the policy classes of the engine the threads share
SharedClasses ==
  { APolicy,
    PolicyClass(<< BUCKET_TYPE, INSTANCE_TYPE >>, Absent, Absent, AResult,
                "True", "False", Absent),
    PolicyClass(<< BUCKET_TYPE, INSTANCE_TYPE >>, Absent, Raise, AResult,
                Absent, Absent, "ok"),
    PolicyClass(<< INSTANCE_TYPE >>, "false", "result", AResult, Absent, Absent, Absent) }

SharedRegistries ==
  UNION { { [i \in 1..n |-> Entry(PolicyNames[i], f[i])] : f \in [1..n -> SharedClasses] } :
          n \in 0..MaxPolicies }

\* thread t calls evaluate(r): the matching policies are selected
ThreadEvaluateCall(t, r) ==
  /\ threads[t].tpc = "idle"
  /\ threads' = [threads EXCEPT ![t] =
                   [tpc |-> "loop", resource |-> r,
                    items |-> matched_items(_policies, r), turn |-> 1,
                    evals |-> << >>]]
  /\ UNCHANGED << _policies, calls, printed, counter, engines >>

ThreadEvaluatePolicy_replaces(t) ==
  /\ threads[t].tpc = "loop"
  /\ threads[t].turn <= Len(threads[t].items)
  /\ LET it == threads[t].items[threads[t].turn]
         r == try_body(threads[t].resource, it.name, it.cls)
     IN /\ calls' = calls \o r.calls
        /\ IF r.outcome = "evaluation"
           THEN /\ threads' = [threads EXCEPT ![t].evals = Append(@, r.val),
                                              ![t].turn = @ + 1]
                /\ UNCHANGED << printed, _policies >>
           ELSE /\ threads' = [threads EXCEPT ![t].turn = @ + 1]
                /\ printed' = Append(printed, it.name)
                /\ _policies' =
                     [i \in 1..Len(_policies) |->
                        IF _policies[i].name = it.name
                        THEN Entry(it.name, APolicy) ELSE _policies[i]]
  /\ UNCHANGED << counter, engines >>

\* one turn of the loop of thread t: the try and its except
ThreadEvaluatePolicy(t) ==
  /\ threads[t].tpc = "loop"
  /\ threads[t].turn <= Len(threads[t].items)
  /\ LET it == threads[t].items[threads[t].turn]
         r == try_body(threads[t].resource, it.name, it.cls)
     IN /\ calls' = calls \o r.calls
        /\ IF r.outcome = "evaluation"
           THEN /\ threads' = [threads EXCEPT ![t].evals = Append(@, r.val),
                                              ![t].turn = @ + 1]
                /\ UNCHANGED printed
           ELSE /\ threads' = [threads EXCEPT ![t].turn = @ + 1]
                /\ printed' = Append(printed, it.name)
  /\ UNCHANGED << _policies, counter, engines >>

\* thread t returns evals
ThreadEvaluateReturn(t) ==
  /\ threads[t].tpc = "loop"
  /\ threads[t].turn > Len(threads[t].items)
  /\ threads' = [threads EXCEPT ![t].tpc = "returned"]
  /\ UNCHANGED << _policies, calls, printed, counter, engines >>

\* the threads take their steps in any order
CNext ==
  \/ \E t \in Threads, r \in Resources : ThreadEvaluateCall(t, r)
  \/ \E t \in Threads : ThreadEvaluatePolicy(t)
  \/ \E t \in Threads : ThreadEvaluateReturn(t)

(***************************************************************************)
(* Engines constructed by several threads                                  *)
(***************************************************************************)

\* a thread that has not begun __init__
NewThread == [tpc |-> "new", read |-> 0, package_name |-> package_name(0)]

\* PythonPolicyEngine.counter += 1, first half: the counter is read
InitReadCounter(t) ==
  /\ threads[t].tpc = "new"
  /\ threads' = [threads EXCEPT ![t].tpc = "read", ![t].read = counter]
  /\ UNCHANGED << counter, engines, package >>

\* PythonPolicyEngine.counter += 1, second half: the sum is stored
InitStoreCounter(t) ==
  /\ threads[t].tpc = "read"
  /\ counter' = threads[t].read + 1
  /\ threads' = [threads EXCEPT ![t].tpc = "stored"]
  /\ UNCHANGED << engines, package >>

\* self.package_name = "rpe.plugins.policies.py_" + str(PythonPolicyEngine.counter)
InitPackageName(t) ==
  /\ threads[t].tpc = "stored"
  /\ threads' = [threads EXCEPT ![t].tpc = "named",
                                ![t].package_name = package_name(counter)]
  /\ UNCHANGED << counter, engines, package >>

\* self._load_policies(): the engine is constructed
InitLoadPolicies(t) ==
  /\ threads[t].tpc = "named"
  /\ engines' = Append(engines, [package_name |-> threads[t].package_name,
                                 loaded |-> _load_policies(package)])
  /\ threads' = [threads EXCEPT ![t].tpc = "constructed"]
  /\ UNCHANGED << counter, package >>

\* the threads construct their engines, their steps in any order
KNext ==
  \/ \E t \in Threads : InitReadCounter(t)
  \/ \E t \in Threads : InitStoreCounter(t)
  \/ \E t \in Threads : InitPackageName(t)
  \/ \E t \in Threads : InitLoadPolicies(t)

(***************************************************************************)
(* A Resource: construction, its name, and its data, fetched on the first  *)
(* access                                                                  *)
(***************************************************************************)

\* the resource types asked for: two of the registry and one that is not
AskedTypes ==
  { "storage.googleapis.com/Bucket", "appengine.googleapis.com/Instance", "fake.type" }

IdentityKeys == {"name", "app", "service", "version"}

\* from_resource_data(resource_type=..., **fields): the type and the fields given
ResourceDatas ==
  { [k \in {"resource_type"} \cup ks |-> IF k = "resource_type" THEN ty ELSE k] :
      ty \in AskedTypes, ks \in SUBSET IdentityKeys }

\* full_resource_name(): made of the type and the identity fields of the type
full_resource_name(resource_data) ==
  [k \in {"resource_type"} \cup required_resource_data(resource_data.resource_type)
     |-> resource_data[k]]

\* what the remote answers to the request for the data
Remotes == { "200", "401", "404", "malformed" }

fetch_propagates(remote) ==
  IF remote = "200" THEN Returns({<< "uniquifier", "u1" >>})
  ELSE Raises("HttpError")

\* the fetch of the remote data: an error of the transport or of the decoding
\* is swallowed and gives an empty mapping
fetch(remote) ==
  IF remote = "200" THEN Returns({<< "uniquifier", "u1" >>})
  ELSE Returns({})

NoCache == [state |-> "absent", data |-> {}]

\* the thread has not called to_dict
ResourceThread == [tpc |-> "idle", made |-> 0]

\* GoogleAPIResource.from_resource_data(**resource_data)
ResourceConstruct(resource_data) ==
  /\ ~api_resource.made
  /\ op = NoOp
  /\ op' = [do |-> "from_resource_data", arg |-> resource_data,
            result |-> from_resource_data(resource_data),
            message |-> construction_error(resource_data)]
  /\ api_resource' =
       IF from_resource_data(resource_data).exc = "none"
       THEN [made |-> TRUE, resource_data |-> resource_data, cache |-> NoCache,
             fetches |-> 0]
       ELSE api_resource
  /\ UNCHANGED << threads, history >>

\* full_resource_name() is called
FullResourceName ==
  /\ api_resource.made
  /\ Cardinality({k \in 1..Len(history) : history[k].do = "full_resource_name"})
       < MaxCalls
  /\ history' = Append(history,
                       [do |-> "full_resource_name", by |-> 0,
                        result |-> Returns(full_resource_name(api_resource.resource_data))])
  /\ UNCHANGED << api_resource, threads, op >>

\* thread t calls to_dict()
ToDictCall(t) ==
  /\ api_resource.made
  /\ threads[t].tpc \in {"idle", "returned"}
  /\ threads[t].made < MaxCalls
  /\ threads' = [threads EXCEPT ![t].tpc = "called", ![t].made = @ + 1]
  /\ UNCHANGED << api_resource, history, op >>

ToDictFetch_forgets(t, remote) ==
  /\ threads[t].tpc = "called"
  /\ api_resource.fetches < MaxCalls * MaxThreads
  /\ api_resource' = [api_resource EXCEPT !.fetches = @ + 1]
  /\ threads' = [threads EXCEPT ![t].tpc = "returned"]
  /\ history' = Append(history,
                       [do |-> "to_dict", by |-> t,
                        result |-> IF fetch(remote).exc /= "none" THEN fetch(remote)
                                   ELSE Returns([identity |-> api_resource.resource_data,
                                                 remote |-> fetch(remote).val])])
  /\ UNCHANGED op

\* the first access: the remote data is fetched and kept
ToDictFetch(t, remote) ==
  /\ threads[t].tpc = "called"
  /\ api_resource.cache.state = "absent"
  /\ api_resource' =
       IF fetch(remote).exc = "none"
       THEN [api_resource EXCEPT !.cache = [state |-> "fetched", data |-> fetch(remote).val],
                                 !.fetches = @ + 1]
       ELSE [api_resource EXCEPT !.fetches = @ + 1]
  /\ threads' = [threads EXCEPT ![t].tpc = "returned"]
  /\ history' = Append(history,
                       [do |-> "to_dict", by |-> t,
                        result |-> IF fetch(remote).exc /= "none" THEN fetch(remote)
                                   ELSE Returns([identity |-> api_resource.resource_data,
                                                 remote |-> fetch(remote).val])])
  /\ UNCHANGED op

\* a later access: what was kept is given
ToDictCached(t) ==
  /\ threads[t].tpc = "called"
  /\ api_resource.cache.state = "fetched"
  /\ threads' = [threads EXCEPT ![t].tpc = "returned"]
  /\ history' = Append(history,
                       [do |-> "to_dict", by |-> t,
                        result |-> Returns([identity |-> api_resource.resource_data,
                                            remote |-> api_resource.cache.data])])
  /\ UNCHANGED << api_resource, op >>

\* a Resource is made, then named and asked for its data by the threads
RNext ==
  \/ \E resource_data \in ResourceDatas : ResourceConstruct(resource_data)
  \/ FullResourceName
  \/ \E t \in Threads : ToDictCall(t)
  \/ \E t \in Threads, remote \in Remotes : ToDictFetch(t, remote)
  \/ \E t \in Threads : ToDictCached(t)
(***************************************************************************)
(* Specifications                                                          *)
(***************************************************************************)

vars == << xvars, evars, tvars >>

\* no call of the extractor yet; an engine without policies at rest
XInit ==
  /\ log_message = EmptyObject
  /\ pc = "idle"
  /\ ran = << >>
  /\ metadata = NotRun
  /\ resources = NotRun
  /\ extracted = NotRun
  /\ _policies = << >>
  /\ epc = "idle"
  /\ resource = NoResource
  /\ matched = << >>
  /\ turn = 0
  /\ evals = << >>
  /\ calls = << >>
  /\ printed = << >>
  /\ escaped = "none"
  /\ package = << >>
  /\ listed = NotRun
  /\ history = << >>
  /\ op = NoOp
  /\ message = NoMessage
  /\ threads = << >>
  /\ counter = 0
  /\ engines = << >>
  /\ api_resource = NoRes

\* the extractor alone
SpecExtractor == XInit /\ [][XNext /\ UNCHANGED evars /\ UNCHANGED tvars]_vars

\* a constructed engine: its policies are loaded, no evaluate call yet; the
\* extractor at rest
EInit ==
  /\ _policies \in Registries
  /\ epc = "idle"
  /\ resource = NoResource
  /\ matched = << >>
  /\ turn = 0
  /\ evals = << >>
  /\ calls = << >>
  /\ printed = << >>
  /\ escaped = "none"
  /\ package = PackageOf(_policies)
  /\ listed = NotRun
  /\ history = << >>
  /\ op = NoOp
  /\ log_message = EmptyObject
  /\ pc = "idle"
  /\ ran = << >>
  /\ metadata = NotRun
  /\ resources = NotRun
  /\ extracted = NotRun
  /\ message = NoMessage
  /\ threads = << >>
  /\ counter = 0
  /\ engines = << >>
  /\ api_resource = NoRes

\* the engine alone
SpecEngine == EInit /\ [][ENext /\ UNCHANGED xvars /\ UNCHANGED tvars]_vars

\* before construction: a package is there, no engine yet
LInit ==
  /\ package \in Packages
  /\ _policies = << >>
  /\ epc = "new"
  /\ resource = NoResource
  /\ matched = << >>
  /\ turn = 0
  /\ evals = << >>
  /\ calls = << >>
  /\ printed = << >>
  /\ escaped = "none"
  /\ listed = NotRun
  /\ history = << >>
  /\ op = NoOp
  /\ log_message = EmptyObject
  /\ pc = "idle"
  /\ ran = << >>
  /\ metadata = NotRun
  /\ resources = NotRun
  /\ extracted = NotRun
  /\ message = NoMessage
  /\ threads = << >>
  /\ counter = 0
  /\ engines = << >>
  /\ api_resource = NoRes

\* construction of an engine and the listing of its policies
SpecLoad == LInit /\ [][LNext /\ UNCHANGED xvars /\ UNCHANGED tvars]_vars

\* a constructed engine of the session classes
SInit ==
  /\ _policies \in SessionRegistries
  /\ epc = "idle"
  /\ resource = NoResource
  /\ matched = << >>
  /\ turn = 0
  /\ evals = << >>
  /\ calls = << >>
  /\ printed = << >>
  /\ escaped = "none"
  /\ package = PackageOf(_policies)
  /\ listed = NotRun
  /\ history = << >>
  /\ op = NoOp
  /\ log_message = EmptyObject
  /\ pc = "idle"
  /\ ran = << >>
  /\ metadata = NotRun
  /\ resources = NotRun
  /\ extracted = NotRun
  /\ message = NoMessage
  /\ threads = << >>
  /\ counter = 0
  /\ engines = << >>
  /\ api_resource = NoRes

\* an engine in use
SpecSession == SInit /\ [][SNext /\ UNCHANGED xvars /\ UNCHANGED tvars]_vars

\* a message of the queue is to be extracted
MInit ==
  /\ message = NoMessage
  /\ pc = "idle"
  /\ log_message = EmptyObject
  /\ ran = << >>
  /\ metadata = NotRun
  /\ resources = NotRun
  /\ extracted = NotRun
  /\ _policies = << >>
  /\ epc = "idle"
  /\ resource = NoResource
  /\ matched = << >>
  /\ turn = 0
  /\ evals = << >>
  /\ calls = << >>
  /\ printed = << >>
  /\ escaped = "none"
  /\ package = << >>
  /\ listed = NotRun
  /\ history = << >>
  /\ op = NoOp
  /\ threads = << >>
  /\ counter = 0
  /\ engines = << >>
  /\ api_resource = NoRes

\* the extractor of the messages of the queue
SpecMicromanager ==
  MInit /\ [][MNext /\ UNCHANGED << evars, threads, counter, engines, api_resource >>]_vars

\* one engine, constructed, and the threads that are to call evaluate on it
CInit ==
  /\ _policies \in SharedRegistries
  /\ threads = [t \in Threads |-> IdleThread]
  /\ counter = 1
  /\ engines = << [package_name |-> package_name(1), loaded |-> _policies] >>
  /\ calls = << >>
  /\ printed = << >>
  /\ epc = "idle"
  /\ resource = NoResource
  /\ matched = << >>
  /\ turn = 0
  /\ evals = << >>
  /\ escaped = "none"
  /\ package = PackageOf(_policies)
  /\ listed = NotRun
  /\ history = << >>
  /\ op = NoOp
  /\ message = NoMessage
  /\ api_resource = NoRes
  /\ log_message = EmptyObject
  /\ pc = "idle"
  /\ ran = << >>
  /\ metadata = NotRun
  /\ resources = NotRun
  /\ extracted = NotRun

\* evaluate calls of several threads on one engine
SpecConcurrent ==
  CInit /\ [][CNext /\ UNCHANGED << xvars, message, api_resource, epc, resource,
                                    matched, turn, evals, escaped, package, listed,
                                    history, op >>]_vars

\* no engine yet: a package and the threads that are to construct engines on it
KInit ==
  /\ package \in { PackageOf(reg) : reg \in SharedRegistries }
  /\ threads = [t \in Threads |-> NewThread]
  /\ counter = 0
  /\ engines = << >>
  /\ _policies = << >>
  /\ calls = << >>
  /\ printed = << >>
  /\ epc = "new"
  /\ resource = NoResource
  /\ matched = << >>
  /\ turn = 0
  /\ evals = << >>
  /\ escaped = "none"
  /\ listed = NotRun
  /\ history = << >>
  /\ op = NoOp
  /\ message = NoMessage
  /\ api_resource = NoRes
  /\ log_message = EmptyObject
  /\ pc = "idle"
  /\ ran = << >>
  /\ metadata = NotRun
  /\ resources = NotRun
  /\ extracted = NotRun

\* engines constructed by several threads
SpecConstruct ==
  KInit /\ [][KNext /\ UNCHANGED << xvars, message, api_resource, _policies, epc,
                                    resource, matched, turn, evals, calls, printed,
                                    escaped, listed, history, op >>]_vars

\* no Resource yet, and the threads that are to use it
RInit ==
  /\ api_resource = NoRes
  /\ threads = [t \in Threads |-> ResourceThread]
  /\ history = << >>
  /\ op = NoOp
  /\ counter = 0
  /\ engines = << >>
  /\ message = NoMessage
  /\ _policies = << >>
  /\ package = << >>
  /\ calls = << >>
  /\ printed = << >>
  /\ epc = "idle"
  /\ resource = NoResource
  /\ matched = << >>
  /\ turn = 0
  /\ evals = << >>
  /\ escaped = "none"
  /\ listed = NotRun
  /\ log_message = EmptyObject
  /\ pc = "idle"
  /\ ran = << >>
  /\ metadata = NotRun
  /\ resources = NotRun
  /\ extracted = NotRun

\* a Resource in use
SpecResource ==
  RInit /\ [][RNext /\ UNCHANGED << xvars, message, counter, engines, _policies,
                                    package, calls, printed, epc, resource, matched,
                                    turn, evals, escaped, listed >>]_vars

(***************************************************************************)
(* Properties                                                              *)
(***************************************************************************)

\* the part of s after its last ch (all of s if ch is not in it)
LastIndexOf(s, ch) ==
  IF \E i \in 1..Len(s) : s[i] = ch
  THEN CHOOSE i \in 1..Len(s) : s[i] = ch /\ \A j \in (i + 1)..Len(s) : s[j] /= ch
  ELSE 0

AfterLast(s, ch) == SubSeq(s, LastIndexOf(s, ch) + 1, Len(s))

HasPrefix(s, p) == Len(s) >= Len(p) /\ \A i \in 1..Len(p) : s[i] = p[i]

HasPart(s, x) ==
  \E i \in 1..(Len(s) - Len(x) + 1) : \A j \in 1..Len(x) : s[i + j - 1] = x[j]

\* the call in progress is extract (its first step is the validation)
ExtractRan == Len(ran) >= 1 /\ ran[1] = "is_audit_log"

\* get_resources has run on log_message
ResourcesRan == resources /= NotRun

TypesOf(res) == [i \in 1..Len(res) |-> res[i].resource_type]
NamesOf(res) == [i \in 1..Len(res) |-> res[i].name]

(***************************************************************************)
(* C1: evaluate never raises, whatever the policies do, and returns        *)
(* exactly the Evaluations of the matching policies that neither raise nor *)
(* are pre-filtered, each as the policy gives it on its own.               *)
(***************************************************************************)

\* a policy whose turn ends in an exception: one of the methods called on it
\* raises or is missing, or evaluate gives no EvaluationResult
C1_ProtocolFails(cls) ==
  IF cls.evaluate /= Absent THEN cls.evaluate /= "result"
  ELSE cls.compliant \in {Absent, Raise} \/ cls.excluded \in {Absent, Raise}

C1_Contributes(cls) ==
  /\ cls.should_evaluate_policy \in {Absent, "true"}
  /\ ~C1_ProtocolFails(cls)

C1_Matching(r) ==
  SelectSeq([i \in 1..Len(_policies) |-> i],
            LAMBDA i : \E k \in 1..Len(_policies[i].cls.applies_to) :
                          _policies[i].cls.applies_to[k] = r.type)

\* what the engine returns for a registry of the one policy i
C1_Alone(i, r) ==
  LET t == try_body(r, policy_name(i), _policies[i].cls)
  IN IF t.outcome = "evaluation" THEN << t.val >> ELSE << >>

RECURSIVE C1_Concat(_, _, _)
C1_Concat(ids, k, r) ==
  IF k > Len(ids) THEN << >> ELSE C1_Alone(ids[k], r) \o C1_Concat(ids, k + 1, r)

C1_EvaluateIsolatesFaults ==
  /\ escaped = "none"
  /\ epc /= "raised"
  /\ epc = "returned" =>
       LET ids == SelectSeq(C1_Matching(resource),
                            LAMBDA i : C1_Contributes(_policies[i].cls))
       IN /\ [k \in 1..Len(evals) |-> evals[k].policy_id]
               = [k \in 1..Len(ids) |-> policy_name(ids[k])]
          /\ evals = C1_Concat(C1_Matching(resource), 1, resource)

\* a returned call in which a policy raised and a later policy was evaluated
C1_Witness ==
  /\ epc = "returned"
  /\ Len(matched) = 2
  /\ \E c \in Elems(calls) : c.policy = policy_name(matched[1]) /\ c.outcome = Raise
  /\ Len(evals) = 1
  /\ evals[1].policy_id = policy_name(matched[2])

(***************************************************************************)
(* C2: is_audit_log holds exactly when protoPayload."@type" is the audit   *)
(* log type and the last '/'-separated piece of logName starts with        *)
(* "cloudaudit.googleapis.com"; without logName or protoPayload it does    *)
(* not hold.                                                               *)
(***************************************************************************)

C2_IsAnAuditLog(m) ==
  /\ m.ptype = <<"t","y","p","e",".","g","o","o","g","l","e","a","p","i","s",".","c","o","m","/","g","o","o","g","l","e",".","c","l","o","u","d",".","a","u","d","i","t",".","A","u","d","i","t","L","o","g">>
  /\ m.logName /= None
  /\ HasPrefix(AfterLast(m.logName, "/"), <<"c","l","o","u","d","a","u","d","i","t",".","g","o","o","g","l","e","a","p","i","s",".","c","o","m">>)

\* extract raises ExtractorException exactly when is_audit_log is false
C2_Accepted == extracted.exc /= "ExtractorException"

C2_IsAuditLogIff ==
  ExtractRan =>
    /\ C2_Accepted <=> C2_IsAnAuditLog(log_message)
    /\ (log_message.logName = None \/ log_message.ptype = None) => ~C2_Accepted

C2_Witness ==
  /\ ExtractRan
  /\ C2_Accepted
  /\ log_message.logName = DATA_ACCESS_LOG

(***************************************************************************)
(* C3: extract on an envelope that is not an audit log raises              *)
(* ExtractorException before get_metadata and get_resources: neither is    *)
(* run and nothing is returned.                                            *)
(***************************************************************************)

C3_InvalidRaisesFirst ==
  (ExtractRan /\ ~is_audit_log(log_message)) =>
    /\ pc = "raised"
    /\ extracted = Raises("ExtractorException")
    /\ ran = << "is_audit_log" >>
    /\ metadata = NotRun
    /\ resources = NotRun

C3_Witness ==
  /\ log_message = EmptyObject
  /\ pc = "raised"
  /\ extracted = Raises("ExtractorException")

(***************************************************************************)
(* C4: the operation is classified from the last dot-separated piece of    *)
(* the method name, lower-cased, a leading "batch" removed, by prefix      *)
(* against read, update, create, delete in this order; no match is the     *)
(* unknown operation.                                                      *)
(***************************************************************************)

C4_Table ==
  << [op |-> "read", prefixes |-> {<<"g","e","t">>, <<"l","i","s","t">>}],
     [op |-> "update",
      prefixes |-> {<<"u","p","d","a","t","e">>, <<"p","a","t","c","h">>, <<"s","e","t">>, <<"d","e","b","u","g">>, <<"e","n","a","b","l","e">>,
                    <<"d","i","s","a","b","l","e">>, <<"e","x","p","a","n","d">>, <<"d","e","a","c","t","i","v","a","t","e">>, <<"a","c","t","i","v","a","t","e">>,
                    <<"s","w","i","t","c","h">>}],
     [op |-> "create", prefixes |-> {<<"c","r","e","a","t","e">>, <<"i","n","s","e","r","t">>}],
     [op |-> "delete", prefixes |-> {<<"d","e","l","e","t","e">>}] >>

C4_Matches(k, seg) == \E p \in C4_Table[k].prefixes : HasPrefix(seg, p)

C4_Expected(method_name) ==
  LET piece == Lower(AfterLast(method_name, "."))
      seg == IF HasPrefix(piece, <<"b","a","t","c","h">>)
             THEN [i \in 1..(Len(piece) - 5) |-> piece[i + 5]]
             ELSE piece
  IN IF \E k \in 1..4 : C4_Matches(k, seg)
     THEN C4_Table[CHOOSE k \in 1..4 :
                     C4_Matches(k, seg) /\ \A j \in 1..(k - 1) : ~C4_Matches(j, seg)].op
     ELSE "None"

C4_OperationType ==
  metadata.exc = "none" =>
    /\ metadata.val.operation = C4_Expected(log_message.methodName)
    /\ metadata.val.operation \in {"read", "update", "create", "delete", "None"}

C4_Witness ==
  /\ metadata.exc = "none"
  /\ log_message.methodName
       = <<"g","o","o","g","l","e",".","a","p","i",".","s","e","r","v","i","c","e","u","s","a","g","e",".","v","1",".","S","e","r","v","i","c","e","U","s","a","g","e",".","B","a","t","c","h","E","n","a","b","l","e","S","e","r","v","i","c","e","s">>
  /\ metadata.val.operation = "update"

(***************************************************************************)
(* C5: a gce_instance log listing N disks gives exactly N Disk resources,  *)
(* each named by initializeParams.diskName if set, else by the instance    *)
(* name if the disk is the boot disk, else by deviceName.  A name is set   *)
(* when it is there and not empty.                                         *)
(***************************************************************************)

C5_InstanceLog ==
  /\ ResourcesRan
  /\ log_message.resType = <<"g","c","e","_","i","n","s","t","a","n","c","e">>
  /\ log_message.resourceName /= None

C5_InstanceName == AfterLast(log_message.resourceName, "/")

C5_Reserved == HasPrefix(C5_InstanceName, <<"a","e","f","-">>) \/ HasPrefix(C5_InstanceName, <<"a","e","t","-">>)

C5_IsSet(v) == v /= None /\ v /= << >>

C5_DiskName(disk) ==
  IF C5_IsSet(disk.diskName) THEN disk.diskName
  ELSE IF disk.boot = JTrue /\ C5_IsSet(C5_InstanceName) THEN C5_InstanceName
  ELSE disk.deviceName

C5_Disks(res) == SelectSeq(res, LAMBDA r : r.resource_type = "compute.googleapis.com/Disk")

C5_DisksAsListed ==
  /\ resources.exc = "none"
  /\ NamesOf(C5_Disks(resources.val))
       = [i \in 1..Len(log_message.disks) |-> C5_DiskName(log_message.disks[i])]

\* the claim as stated: for every gce_instance log
C5_DiskNames_AnyInstance == C5_InstanceLog => C5_DisksAsListed

\* the claim for instances that are not hidden
C5_DiskNames == (C5_InstanceLog /\ ~C5_Reserved) => C5_DisksAsListed

C5_Witness ==
  /\ C5_InstanceLog
  /\ ~C5_Reserved
  /\ Len(log_message.disks) = 2
  /\ ~C5_IsSet(log_message.disks[1].diskName)
  /\ log_message.disks[1].boot = JTrue
  /\ C5_IsSet(log_message.disks[2].diskName)
  /\ resources.exc = "none"
  /\ NamesOf(C5_Disks(resources.val)) = << <<"v","m","-","1">>, <<"d","i","s","k","-","1">> >>

(***************************************************************************)
(* C6: a gce_instance log whose instance name starts with "aef-" or "aet-" *)
(* gives no resources and no error, whatever disks it lists; a gae_app     *)
(* DebugInstance log with such a name still gives one appengine Instance.  *)
(***************************************************************************)

C6_LastPiece == AfterLast(log_message.resourceName, "/")

C6_ReservedName ==
  /\ log_message.resourceName /= None
  /\ Len(C6_LastPiece) >= 4
  /\ C6_LastPiece[1] = "a" /\ C6_LastPiece[2] = "e"
  /\ C6_LastPiece[3] \in {"f", "t"} /\ C6_LastPiece[4] = "-"

C6_HiddenInstances ==
  /\ (ResourcesRan /\ log_message.resType = <<"g","c","e","_","i","n","s","t","a","n","c","e">> /\ C6_ReservedName)
       => resources = Returns(<< >>)
  /\ (/\ ResourcesRan
      /\ log_message.resType = <<"g","a","e","_","a","p","p">>
      /\ log_message.methodName /= None
      /\ HasPart(log_message.methodName, <<"D","e","b","u","g","I","n","s","t","a","n","c","e">>)
      /\ C6_ReservedName)
       => /\ resources.exc = "none"
          /\ TypesOf(resources.val) = << "appengine.googleapis.com/Instance" >>
          /\ NamesOf(resources.val) = << C6_LastPiece >>

C6_Witness ==
  /\ ResourcesRan
  /\ log_message.resType = <<"g","c","e","_","i","n","s","t","a","n","c","e">>
  /\ C6_ReservedName
  /\ Len(log_message.disks) >= 1
  /\ resources = Returns(<< >>)

\* the gae_app half of C6 happens too
C6_WitnessAppEngine ==
  /\ ResourcesRan
  /\ log_message.resType = <<"g","a","e","_","a","p","p">>
  /\ C6_ReservedName
  /\ resources.exc = "none"
  /\ Len(resources.val) = 1

(***************************************************************************)
(* C7: a log whose resource.type is absent or is no kind of the table, or  *)
(* is a kind whose method-name filter the method name does not match,      *)
(* gives an empty resource list and no error.                              *)
(***************************************************************************)

C7_Kinds ==
  { <<"c","l","o","u","d","s","q","l","_","d","a","t","a","b","a","s","e">>, <<"g","c","s","_","b","u","c","k","e","t">>, <<"b","i","g","q","u","e","r","y","_","d","a","t","a","s","e","t">>, <<"p","r","o","j","e","c","t">>,
    <<"p","u","b","s","u","b","_","s","u","b","s","c","r","i","p","t","i","o","n">>, <<"p","u","b","s","u","b","_","t","o","p","i","c">>, <<"a","u","d","i","t","e","d","_","r","e","s","o","u","r","c","e">>,
    <<"g","c","e","_","n","e","t","w","o","r","k">>, <<"g","c","e","_","s","u","b","n","e","t","w","o","r","k">>, <<"g","c","e","_","f","i","r","e","w","a","l","l","_","r","u","l","e">>, <<"g","a","e","_","a","p","p">>,
    <<"g","c","e","_","i","n","s","t","a","n","c","e">>, <<"c","l","o","u","d","_","f","u","n","c","t","i","o","n">>, <<"c","l","o","u","d","_","d","a","t","a","p","r","o","c","_","c","l","u","s","t","e","r">>,
    <<"g","k","e","_","c","l","u","s","t","e","r">>, <<"g","k","e","_","n","o","d","e","p","o","o","l">>, <<"d","a","t","a","f","l","o","w","_","s","t","e","p">> }

C7_Unrecognized(m) == m.resType = None \/ m.resType \notin C7_Kinds

\* the method name of m is there and misses every filter of the kind of m
C7_FilterMisses(m) ==
  LET mn == m.methodName
      kind == m.resType
  IN /\ mn /= None
     /\ \/ kind = <<"c","l","o","u","d","s","q","l","_","d","a","t","a","b","a","s","e">> /\ ~HasPrefix(mn, <<"c","l","o","u","d","s","q","l",".","i","n","s","t","a","n","c","e","s">>)
        \/ /\ kind = <<"g","c","s","_","b","u","c","k","e","t">>
           /\ ~HasPrefix(mn, <<"s","t","o","r","a","g","e",".","b","u","c","k","e","t","s">>)
           /\ ~HasPrefix(mn, <<"s","t","o","r","a","g","e",".","s","e","t","I","a","m","P","e","r","m","i","s","s","i","o","n","s">>)
        \/ /\ kind = <<"b","i","g","q","u","e","r","y","_","d","a","t","a","s","e","t">>
           /\ ~HasPart(mn, <<"D","a","t","a","s","e","t","S","e","r","v","i","c","e">>)
           /\ ~HasPart(mn, <<"e","t","I","a","m","P","o","l","i","c","y">>)
        \/ /\ kind \in {<<"p","r","o","j","e","c","t">>, <<"p","u","b","s","u","b","_","s","u","b","s","c","r","i","p","t","i","o","n">>, <<"p","u","b","s","u","b","_","t","o","p","i","c">>}
           /\ ~HasPart(mn, <<"e","t","I","a","m","P","o","l","i","c","y">>)
        \/ kind = <<"g","a","e","_","a","p","p">> /\ ~HasPart(mn, <<"D","e","b","u","g","I","n","s","t","a","n","c","e">>)
        \/ kind = <<"d","a","t","a","f","l","o","w","_","s","t","e","p">> /\ ~HasPart(mn, <<"c","r","e","a","t","e">>)
        \/ /\ kind = <<"a","u","d","i","t","e","d","_","r","e","s","o","u","r","c","e">>
           /\ \A x \in {<<"E","n","a","b","l","e","S","e","r","v","i","c","e">>, <<"D","i","s","a","b","l","e","S","e","r","v","i","c","e">>, <<"c","t","i","v","a","t","e","S","e","r","v","i","c","e">>,
                        <<"D","e","a","c","t","i","v","a","t","e","S","e","r","v","i","c","e","s">>, <<"B","i","g","t","a","b","l","e","I","n","s","t","a","n","c","e","A","d","m","i","n">>,
                        <<"C","l","o","u","d","R","e","d","i","s">>} : ~HasPart(mn, x)
           /\ m.labels["service"] \notin {<<"d","a","t","a","f","u","s","i","o","n",".","g","o","o","g","l","e","a","p","i","s",".","c","o","m">>,
                                          <<"d","a","t","a","f","o","r","m",".","g","o","o","g","l","e","a","p","i","s",".","c","o","m">>}

C7_UnrecognizedIsEmpty ==
  (ResourcesRan /\ (C7_Unrecognized(log_message) \/ C7_FilterMisses(log_message)))
    => resources = Returns(<< >>)

\* a kind that is not in the table, on a log without a method name
C7_Witness ==
  /\ ResourcesRan
  /\ log_message.resType = <<"k","8","s","_","c","l","u","s","t","e","r">>
  /\ log_message.methodName = None
  /\ resources = Returns(<< >>)

\* a kind of the table whose filter the method name misses
C7_WitnessFilter ==
  /\ ResourcesRan
  /\ log_message.resType = <<"p","r","o","j","e","c","t">>
  /\ C7_FilterMisses(log_message)
  /\ resources = Returns(<< >>)

\* a log without resource.type
C7_WitnessNoType ==
  /\ ResourcesRan
  /\ log_message.resType = None
  /\ resources = Returns(<< >>)

(***************************************************************************)
(* C8: extract raises for no envelope that passes is_audit_log, whichever  *)
(* of its optional sub-fields are absent: the only error of extract is     *)
(* ExtractorException.                                                     *)
(***************************************************************************)

C8_OnlyValidationFails ==
  ExtractRan => extracted.exc \in {"not run", "none", "ExtractorException"}

(***************************************************************************)
(* C9: a service enable/disable/(de)activate log gives one Service per     *)
(* service of request.serviceIds, or of request.serviceNames when there    *)
(* are no serviceIds, in order and named by it; when neither lists a       *)
(* service it gives the one Service that protoPayload.resourceName ends in.*)
(***************************************************************************)

C9_ServiceLog ==
  /\ ResourcesRan
  /\ log_message.resType = <<"a","u","d","i","t","e","d","_","r","e","s","o","u","r","c","e">>
  /\ log_message.methodName /= None
  /\ \/ HasPart(log_message.methodName, <<"E","n","a","b","l","e","S","e","r","v","i","c","e">>)
     \/ HasPart(log_message.methodName, <<"D","i","s","a","b","l","e","S","e","r","v","i","c","e">>)
     \/ HasPart(log_message.methodName, <<"c","t","i","v","a","t","e","S","e","r","v","i","c","e">>)

C9_Enumerated ==
  IF Len(log_message.serviceIds) > 0 THEN log_message.serviceIds
  ELSE log_message.serviceNames

C9_AllServices(res) ==
  \A i \in 1..Len(res) : res[i].resource_type = "serviceusage.googleapis.com/Service"

C9_OnePerService ==
  /\ (C9_ServiceLog /\ Len(C9_Enumerated) > 0) =>
       /\ resources.exc = "none"
       /\ Len(resources.val) = Len(C9_Enumerated)
       /\ NamesOf(resources.val) = C9_Enumerated
       /\ C9_AllServices(resources.val)
  /\ (C9_ServiceLog /\ Len(C9_Enumerated) = 0 /\ log_message.resourceName /= None) =>
       /\ resources.exc = "none"
       /\ NamesOf(resources.val) = << AfterLast(log_message.resourceName, "/") >>
       /\ C9_AllServices(resources.val)

\* a batch enable of three services gives three resources
C9_Witness ==
  /\ C9_ServiceLog
  /\ HasPart(log_message.methodName, <<"B","a","t","c","h","E","n","a","b","l","e","S","e","r","v","i","c","e","s">>)
  /\ Len(log_message.serviceIds) = 3
  /\ Len(log_message.serviceNames) = 1
  /\ resources.exc = "none"
  /\ Len(resources.val) = 3

\* no service is enumerated: the one the resource name ends in
C9_WitnessSingle ==
  /\ C9_ServiceLog
  /\ Len(C9_Enumerated) = 0
  /\ resources.exc = "none"
  /\ NamesOf(resources.val) = << <<"c",".","g","o","o","g","l","e","a","p","i","s",".","c","o","m">> >>

(***************************************************************************)
(* C10: a cloudsql_database log of a cloudsql.instances method whose       *)
(* resource.labels.database_id is absent, or empty after its last ':',     *)
(* gives exactly one sqladmin Instance, named by request.body.name, else   *)
(* by request.resource.instanceName.instanceId.                            *)
(***************************************************************************)

C10_CloudSQLLog ==
  /\ ResourcesRan
  /\ log_message.resType = <<"c","l","o","u","d","s","q","l","_","d","a","t","a","b","a","s","e">>
  /\ log_message.methodName /= None
  /\ HasPrefix(log_message.methodName, <<"c","l","o","u","d","s","q","l",".","i","n","s","t","a","n","c","e","s">>)

C10_PrimaryMissing ==
  LET db == log_message.labels["database_id"]
  IN db = None \/ AfterLast(db, ":") = << >>

C10_Alternate ==
  IF log_message.bodyName /= None THEN log_message.bodyName
  ELSE log_message.instanceId

C10_FallbackOrder ==
  (C10_CloudSQLLog /\ C10_PrimaryMissing /\ C10_Alternate /= None) =>
    /\ resources.exc = "none"
    /\ TypesOf(resources.val) = << "sqladmin.googleapis.com/Instance" >>
    /\ NamesOf(resources.val) = << C10_Alternate >>


(***************************************************************************)
(* The engine's claims: helpers written from the claims                    *)
(***************************************************************************)

\* the registry's entry of a policy id
EntryOf(id) == _policies[CHOOSE i \in 1..Len(_policies) : _policies[i].name = id]

IsRegistered(id) == \E i \in 1..Len(_policies) : _policies[i].name = id

\* the policy's applies_to holds the type of the resource
AppliesToType(id, r) ==
  /\ IsRegistered(id)
  /\ \E k \in 1..Len(EntryOf(id).cls.applies_to) : EntryOf(id).cls.applies_to[k] = r.type

EvaluationMethods == {"evaluate", "compliant", "excluded"}

\* where in the calls made so far a call is
CallsOf(id, methods) ==
  {k \in 1..Len(calls) : calls[k].policy = id /\ calls[k].method \in methods}

(***************************************************************************)
(* C11: evaluate(resource) runs policy code only for the policies whose    *)
(* applies_to holds resource.type(): every Evaluation is of such a policy, *)
(* no method of another policy is called, and a policy gives at most one   *)
(* Evaluation.                                                             *)
(***************************************************************************)

C11_OnlyMatchingPolicies ==
  epc \in {"loop", "returned"} =>
    /\ \A k \in 1..Len(evals) : AppliesToType(evals[k].policy_id, resource)
    /\ \A k \in 1..Len(calls) : AppliesToType(calls[k].policy, resource)
    /\ \A k, l \in 1..Len(evals) : evals[k].policy_id = evals[l].policy_id => k = l

\* a returned call on an engine with a policy of another type, which has
\* methods to call, and a policy of the resource's type, which was evaluated
C11_Witness ==
  /\ epc = "returned"
  /\ Len(evals) = 1
  /\ \E i \in 1..Len(_policies) :
       /\ ~AppliesToType(_policies[i].name, resource)
       /\ _policies[i].cls.evaluate = "result"

(***************************************************************************)
(* C12: a policy's should_evaluate_policy is called before its evaluation  *)
(* protocol; when it gives a false value, evaluate, compliant and excluded *)
(* of that policy are not called and the result has no Evaluation of it,   *)
(* and the other policies are evaluated all the same.                      *)
(***************************************************************************)

C12_HasFilter(id) == EntryOf(id).cls.should_evaluate_policy /= Absent

C12_FilteredOut(id) == EntryOf(id).cls.should_evaluate_policy = "false"

\* what a policy without a pre-filter gives when nothing of it fails
C12_Evaluates(id) ==
  LET cls == EntryOf(id).cls
  IN /\ cls.should_evaluate_policy = Absent
     /\ IF cls.evaluate /= Absent THEN cls.evaluate = "result"
        ELSE cls.compliant \in {"True", "False", "other"}
             /\ cls.excluded \in {"True", "False", "other"}

C12_PreFilter ==
  epc \in {"loop", "returned"} =>
    \A i \in 1..Len(_policies) :
      LET id == _policies[i].name
      IN (AppliesToType(id, resource) /\ C12_HasFilter(id)) =>
           \* called first
           /\ \A k \in CallsOf(id, EvaluationMethods) :
                \E j \in CallsOf(id, {"should_evaluate_policy"}) : j < k
           /\ epc = "returned" => Cardinality(CallsOf(id, {"should_evaluate_policy"})) = 1
           \* a false value skips the policy and nothing else
           /\ C12_FilteredOut(id) =>
                /\ CallsOf(id, EvaluationMethods) = {}
                /\ \A k \in 1..Len(evals) : evals[k].policy_id /= id
                /\ epc = "returned" =>
                     \A j \in 1..Len(_policies) :
                       (AppliesToType(_policies[j].name, resource)
                        /\ C12_Evaluates(_policies[j].name)) =>
                         \E k \in 1..Len(evals) : evals[k].policy_id = _policies[j].name

\* the first policy was filtered out, the second was evaluated
C12_Witness ==
  /\ epc = "returned"
  /\ Len(_policies) = 2
  /\ AppliesToType(_policies[1].name, resource)
  /\ C12_FilteredOut(_policies[1].name)
  /\ CallsOf(_policies[1].name, {"should_evaluate_policy"}) /= {}
  /\ Len(evals) = 1
  /\ evals[1].policy_id = _policies[2].name

(***************************************************************************)
(* C13: the list evaluate returns is in discovery order: two Evaluations   *)
(* of a result stand in the order of their policies in the registry, which *)
(* is the order policies() lists them in, whatever the policies return,    *)
(* skip or fail, and in every call.                                        *)
(***************************************************************************)

\* the place of a policy in the registry
C13_Place(id) == CHOOSE i \in 1..Len(_policies) : _policies[i].name = id

C13_InOrder(es) ==
  \A k, l \in 1..Len(es) :
    k < l => C13_Place(es[k].policy_id) < C13_Place(es[l].policy_id)

C13_DiscoveryOrder ==
  /\ LET l == policies(_policies)
     IN l.exc = "none" =>
          [i \in 1..Len(l.val) |-> l.val[i].policy_id]
            = [i \in 1..Len(_policies) |-> _policies[i].name]
  /\ C13_InOrder(evals)
  /\ \A h \in 1..Len(history) : C13_InOrder(history[h].evals)
  /\ \A g, h \in 1..Len(history) :
       history[g].resource = history[h].resource =>
         [k \in 1..Len(history[g].evals) |-> history[g].evals[k].policy_id]
           = [k \in 1..Len(history[h].evals) |-> history[h].evals[k].policy_id]

\* two calls for the same resource returned, each with two Evaluations
C13_Witness ==
  /\ Len(history) = 2
  /\ history[1].resource = history[2].resource
  /\ Len(history[1].evals) = 2
  /\ Len(history[2].evals) = 2

(***************************************************************************)
(* C14: remediate(resource, policy_id) with a policy_id that is not        *)
(* registered fails with the error of an unknown key, which reaches the    *)
(* caller; no policy's remediate is called and the registry is as it was.  *)
(***************************************************************************)

C14_UnknownCalled == op.do = "remediate" /\ ~IsRegistered(op.policy_id)

C14_UnknownPolicy ==
  C14_UnknownCalled =>
    /\ op.outcome.exc = "KeyError"
    /\ \A k \in 1..Len(calls) : calls[k].method /= "remediate"
    /\ PackageOf(_policies) = package

\* remediate of an unknown id on an engine whose two policies have remediate
C14_Witness ==
  /\ C14_UnknownCalled
  /\ Len(_policies) = 2
  /\ \A i \in 1..2 : _policies[i].cls.remediate /= Absent

(***************************************************************************)
(* C15: an exception of a policy's remediate function is caught neither by *)
(* the engine's remediate nor by Evaluation.remediate: the caller gets it. *)
(***************************************************************************)

C15_RemediateRaised ==
  /\ op.do \in {"remediate", "Evaluation.remediate"}
  /\ IsRegistered(op.policy_id)
  /\ EntryOf(op.policy_id).cls.remediate = Raise

C15_RemediatePropagates ==
  C15_RemediateRaised =>
    /\ op.outcome.exc = "PolicyError"
    /\ \E k \in 1..Len(calls) :
         calls[k] = Call(op.policy_id, "remediate", Raise)

\* remediate() of an Evaluation whose policy's remediate raises
C15_Witness ==
  /\ C15_RemediateRaised
  /\ op.do = "Evaluation.remediate"

C15_WitnessEngine ==
  /\ C15_RemediateRaised
  /\ op.do = "remediate"

(***************************************************************************)
(* C16: every Evaluation evaluate(r) returns has this engine, r, and a     *)
(* registered policy id; its remediate() calls engine.remediate with its   *)
(* own resource and policy id, so it reaches the remediate of the policy   *)
(* that made it and never fails for an unknown policy id.                  *)
(***************************************************************************)

C16_Complete(ev, r) ==
  /\ ev.engine = "self"
  /\ ev.resource = r
  /\ IsRegistered(ev.policy_id)

C16_EvaluationRemediates ==
  /\ \A k \in 1..Len(evals) : C16_Complete(evals[k], resource)
  /\ \A h \in 1..Len(history) :
       \A k \in 1..Len(history[h].evals) :
         C16_Complete(history[h].evals[k], history[h].resource)
  /\ op.do = "Evaluation.remediate" =>
       LET ev == evals[op.on]
       IN /\ op.resource = ev.resource
          /\ op.policy_id = ev.policy_id
          /\ op.outcome.exc /= "KeyError"
          /\ \A k \in 1..Len(calls) :
               calls[k].method = "remediate" => calls[k].policy = ev.policy_id
          /\ EntryOf(ev.policy_id).cls.remediate /= Absent =>
               Cardinality(CallsOf(ev.policy_id, {"remediate"})) = 1

\* remediate() of the second of two Evaluations reached its policy
C16_Witness ==
  /\ op.do = "Evaluation.remediate"
  /\ op.on = 2
  /\ CallsOf(evals[2].policy_id, {"remediate"}) /= {}
  /\ evals[1].policy_id /= evals[2].policy_id

(***************************************************************************)
(* C17: discovery indexes the policies of a package by id and fails when   *)
(* two policies of the package have the same id; one policy never takes    *)
(* the place of another under the same id without an error.                *)
(***************************************************************************)

C17_IsPolicyDefinition(d) == d.obj.isclass /\ d.obj.has_applies_to = "list"

\* two definitions of the package are policies of the same id
C17_Collision ==
  \E i, j \in 1..Len(package) :
    /\ i < j
    /\ package[i].name = package[j].name
    /\ C17_IsPolicyDefinition(package[i])
    /\ C17_IsPolicyDefinition(package[j])

\* an engine is constructed only of a package without a collision
C17_FailsFastOnCollision == epc = "idle" => ~C17_Collision

(***************************************************************************)
(* C18: every Evaluation that evaluate returns has an excluded flag in its *)
(* evaluation_attributes, whichever protocol its policy is of.             *)
(***************************************************************************)

C18_HasFlag(ev) ==
  /\ ev.evaluation_attributes /= NoneAttributes
  /\ \E a \in ev.evaluation_attributes : a[1] = "excluded"

\* the claim as made, of both protocols
C18_ExcludedAlways == \A k \in 1..Len(evals) : C18_HasFlag(evals[k])

C18_IsLegacy(id) == EntryOf(id).cls.evaluate = Absent

\* as amended: the flag is there, and a boolean, under the legacy protocol;
\* under the evaluate protocol the attributes are those of the policy's
\* EvaluationResult
C18_ExcludedByProtocol ==
  \A k \in 1..Len(evals) :
    LET ev == evals[k]
    IN IF C18_IsLegacy(ev.policy_id)
       THEN /\ C18_HasFlag(ev)
            /\ \A a \in ev.evaluation_attributes : a[1] = "excluded" => a[2] \in BOOLEAN
       ELSE ev.evaluation_attributes
              = EntryOf(ev.policy_id).cls.result.evaluation_attributes

\* a result with an Evaluation of each protocol, the flag only in the
\* legacy one
C18_Witness ==
  /\ epc = "returned"
  /\ \E k, l \in 1..Len(evals) :
       /\ C18_IsLegacy(evals[k].policy_id)
       /\ C18_HasFlag(evals[k])
       /\ ~C18_IsLegacy(evals[l].policy_id)
       /\ ~C18_HasFlag(evals[l])

(***************************************************************************)
(* C19: the policy_attributes of every Evaluation that evaluate returns    *)
(* are those policies() reports for the Evaluation's policy_id, for the    *)
(* policies of both protocols.                                             *)
(***************************************************************************)

\* what policies() reports for a policy: the class attribute, {} without it
C19_Reported(id) ==
  LET cls == EntryOf(id).cls
  IN IF cls.has_policy_attributes THEN cls.policy_attributes ELSE {}

C19_StaticAttributes ==
  \A k \in 1..Len(evals) :
    evals[k].policy_attributes = C19_Reported(evals[k].policy_id)

(***************************************************************************)
(* C20: an Evaluation is an immutable record: once evaluate has returned   *)
(* it, no call of the interface, reading or assigning excluded and         *)
(* remediate() included, changes any of its fields.                        *)
(***************************************************************************)

\* the Evaluations as the last call returned them
C20_Returned == history[Len(history)].evals

C20_AfterCall == epc = "done" /\ Len(history) > 0

\* the claim as made
C20_Immutable == C20_AfterCall => evals = C20_Returned

C20_Others(attrs) ==
  IF attrs = NoneAttributes THEN attrs ELSE {a \in attrs : a[1] /= "excluded"}

\* the fields but the excluded entry of evaluation_attributes
C20_Rest(ev) == [ev EXCEPT !.evaluation_attributes = C20_Others(@)]

\* as amended: only assigning excluded changes an Evaluation, and only the
\* excluded entry of its evaluation_attributes
C20_ImmutableButExcluded ==
  C20_AfterCall =>
    IF op.do = "excluded.setter"
    THEN /\ Len(evals) = Len(C20_Returned)
         /\ \A k \in 1..Len(evals) :
              IF k = op.on THEN C20_Rest(evals[k]) = C20_Rest(C20_Returned[k])
              ELSE evals[k] = C20_Returned[k]
    ELSE evals = C20_Returned

\* excluded was read on an Evaluation without the flag; excluded was
\* assigned on one of two Evaluations and changed it
C20_Witness ==
  /\ C20_AfterCall
  /\ op.do = "excluded"
  /\ op.outcome = Returns(FALSE)
  /\ ~C18_HasFlag(evals[op.on])

C20_WitnessAssigned ==
  /\ C20_AfterCall
  /\ op.do = "excluded.setter"
  /\ Len(evals) = 2
  /\ evals /= C20_Returned

(***************************************************************************)
(* C27: a policy is evaluated through one protocol: a class that defines   *)
(* evaluate has only evaluate called, never compliant or excluded; any     *)
(* other class has compliant and excluded called.  Both give an Evaluation *)
(* of the same shape; a legacy Evaluation is compliant only when           *)
(* compliant() gives True itself, excluded only when excluded() gives True *)
(* itself, and remediable exactly when the class defines remediate.        *)
(***************************************************************************)

C27_Fields ==
  { "resource", "engine", "policy_id", "compliant", "remediable",
    "policy_attributes", "evaluation_attributes" }

C27_CountOf(id, method) == Cardinality(CallsOf(id, {method}))

\* the policy's turn came to the evaluation protocol
C27_Evaluated(id) ==
  /\ AppliesToType(id, resource)
  /\ EntryOf(id).cls.should_evaluate_policy \in {Absent, "true"}

C27_LegacyVerdict(ev, cls) ==
  /\ ev.compliant = (cls.compliant = "True")
  /\ ev.evaluation_attributes = {<< "excluded", cls.excluded = "True" >>}
  /\ ev.remediable = (cls.remediate /= Absent)

C27_OneProtocol ==
  /\ \A k \in 1..Len(evals) : DOMAIN evals[k] = C27_Fields
  /\ epc \in {"loop", "returned"} =>
       \A i \in 1..Len(_policies) :
         LET id == _policies[i].name
             cls == _policies[i].cls
         IN IF cls.evaluate /= Absent
            THEN /\ CallsOf(id, {"compliant", "excluded"}) = {}
                 /\ (epc = "returned" /\ C27_Evaluated(id)) =>
                      C27_CountOf(id, "evaluate") = 1
            ELSE /\ CallsOf(id, {"evaluate"}) = {}
                 /\ \A x \in CallsOf(id, {"excluded"}) :
                      \E c \in CallsOf(id, {"compliant"}) : c < x
                 /\ (/\ epc = "returned"
                     /\ C27_Evaluated(id)
                     /\ cls.compliant \in {"True", "False", "other"}
                     /\ cls.excluded /= Absent) =>
                      /\ C27_CountOf(id, "compliant") = 1
                      /\ C27_CountOf(id, "excluded") = 1
                 /\ \A k \in 1..Len(evals) :
                      evals[k].policy_id = id => C27_LegacyVerdict(evals[k], cls)

\* a class with both protocols was evaluated by evaluate, and a legacy class
\* whose compliant() gives a value that is not True is not compliant
C27_Witness ==
  /\ epc = "returned"
  /\ Len(evals) = 2
  /\ EntryOf(evals[1].policy_id).cls.evaluate = "result"
  /\ EntryOf(evals[1].policy_id).cls.compliant /= Absent
  /\ EntryOf(evals[2].policy_id).cls.evaluate = Absent
  /\ EntryOf(evals[2].policy_id).cls.compliant = "other"
  /\ ~evals[2].compliant

(***************************************************************************)
(* C28: the audited_resource rule keyed on "DeactivateServices" is never   *)
(* the rule selected: such a method name holds "ctivateService" and the    *)
(* rule before it takes the log, so the service names come from            *)
(* request.serviceIds, request.serviceNames or the end of                  *)
(* protoPayload.resourceName, never from resource.labels.service.          *)
(***************************************************************************)

C28_DeactivateLog ==
  /\ ResourcesRan
  /\ log_message.resType = <<"a","u","d","i","t","e","d","_","r","e","s","o","u","r","c","e">>
  /\ log_message.methodName /= None
  /\ HasPart(log_message.methodName, <<"D","e","a","c","t","i","v","a","t","e","S","e","r","v","i","c","e","s">>)

C28_Named ==
  IF Len(log_message.serviceIds) > 0 THEN log_message.serviceIds
  ELSE IF Len(log_message.serviceNames) > 0 THEN log_message.serviceNames
  ELSE << AfterLast(log_message.resourceName, "/") >>

C28_DeactivateNeverSelected ==
  /\ ResourcesRan => matched_rule(log_message) /= "deactivate_services"
  /\ C28_DeactivateLog =>
       /\ HasPart(log_message.methodName, <<"c","t","i","v","a","t","e","S","e","r","v","i","c","e">>)
       /\ matched_rule(log_message) = "service"
       /\ resources.exc = "none" =>
            /\ NamesOf(resources.val) = C28_Named
            /\ \A i \in 1..Len(resources.val) :
                 resources.val[i].name /= log_message.labels["service"]

\* a DeactivateServices log with two service ids and a service label
C28_Witness ==
  /\ C28_DeactivateLog
  /\ log_message.labels["service"] = <<"s","e","r","v","i","c","e","u","s","a","g","e",".","g","o","o","g","l","e","a","p","i","s",".","c","o","m">>
  /\ Len(log_message.serviceIds) = 2
  /\ resources.exc = "none"
  /\ Len(resources.val) = 2

(***************************************************************************)
(* C29: the result of get_operation_type does not depend on the order the  *)
(* four prefix sets are tested in: no prefix of one set is a prefix of a   *)
(* prefix of another set, so at most one set matches the last segment of   *)
(* a method name.                                                          *)
(***************************************************************************)

C29_Sets ==
  << [op |-> "read", prefixes |-> read_prefixes],
     [op |-> "update", prefixes |-> update_prefixes],
     [op |-> "create", prefixes |-> create_prefixes],
     [op |-> "delete", prefixes |-> delete_prefixes] >>

C29_SetMatches(k, seg) ==
  \E i \in 1..Len(C29_Sets[k].prefixes) : HasPrefix(seg, C29_Sets[k].prefixes[i])

C29_Segment(method_name) ==
  LET piece == Lower(AfterLast(method_name, "."))
  IN IF HasPrefix(piece, <<"b","a","t","c","h">>)
     THEN [i \in 1..(Len(piece) - 5) |-> piece[i + 5]]
     ELSE piece

\* the orders the four sets can be tested in
C29_Orders ==
  { o \in [1..Len(C29_Sets) -> 1..Len(C29_Sets)] :
      \A a, b \in 1..Len(C29_Sets) : a /= b => o[a] /= o[b] }

\* the result when the sets are tested in the order o
C29_ResultIn(o, seg) ==
  IF \E k \in 1..Len(C29_Sets) : C29_SetMatches(o[k], seg)
  THEN C29_Sets[o[CHOOSE k \in 1..Len(C29_Sets) :
                     /\ C29_SetMatches(o[k], seg)
                     /\ \A j \in 1..(k - 1) : ~C29_SetMatches(o[j], seg)]].op
  ELSE "None"

C29_PrefixFree ==
  \A a, b \in 1..Len(C29_Sets) :
    a /= b =>
      \A i \in 1..Len(C29_Sets[a].prefixes), j \in 1..Len(C29_Sets[b].prefixes) :
        ~HasPrefix(C29_Sets[a].prefixes[i], C29_Sets[b].prefixes[j])

C29_OrderIndependent ==
  metadata.exc = "none" =>
    LET seg == C29_Segment(log_message.methodName)
    IN /\ C29_PrefixFree
       /\ Cardinality({k \in 1..Len(C29_Sets) : C29_SetMatches(k, seg)}) <= 1
       /\ \A o \in C29_Orders : C29_ResultIn(o, seg) = metadata.val.operation

\* a delete method, whose segment starts like two prefixes of update do
C29_Witness ==
  /\ metadata.exc = "none"
  /\ log_message.methodName = <<"v","1",".","c","o","m","p","u","t","e",".","i","n","s","t","a","n","c","e","s",".","d","e","l","e","t","e">>
  /\ metadata.val.operation = "delete"

(***************************************************************************)
(* C30: a gce_instance log with an instance name that is not reserved      *)
(* gives, whatever its method name, the Instance first and then one Disk   *)
(* for each entry of protoPayload.request.disks, in their order, each with *)
(* the zone of the instance as location and its project_id: 1 + the        *)
(* number of disks listed.                                                 *)
(***************************************************************************)

C30_InstanceLog ==
  /\ ResourcesRan
  /\ log_message.resType = <<"g","c","e","_","i","n","s","t","a","n","c","e">>
  /\ log_message.resourceName /= None
  /\ ~HasPrefix(AfterLast(log_message.resourceName, "/"), <<"a","e","f","-">>)
  /\ ~HasPrefix(AfterLast(log_message.resourceName, "/"), <<"a","e","t","-">>)

C30_InstanceThenDisks ==
  C30_InstanceLog =>
    /\ resources.exc = "none"
    /\ Len(resources.val) = 1 + Len(log_message.disks)
    /\ resources.val[1].resource_type = "compute.googleapis.com/Instance"
    /\ resources.val[1].name = AfterLast(log_message.resourceName, "/")
    /\ \A i \in 1..Len(log_message.disks) :
         LET d == resources.val[i + 1]
         IN /\ d.resource_type = "compute.googleapis.com/Disk"
            /\ d.name = C5_DiskName(log_message.disks[i])
            /\ d.location = resources.val[1].location
            /\ d.location = log_message.labels["zone"]
            /\ d.project_id = resources.val[1].project_id
            /\ d.project_id = log_message.labels["project_id"]

\* a log of a method that creates nothing, with a disk
C30_Witness ==
  /\ C30_InstanceLog
  /\ log_message.methodName = <<"v","1",".","c","o","m","p","u","t","e",".","i","n","s","t","a","n","c","e","s",".","s","t","o","p">>
  /\ Len(log_message.disks) = 1
  /\ resources.exc = "none"
  /\ Len(resources.val) = 2

\* a creation log with two disks
C30_WitnessCreation ==
  /\ C30_InstanceLog
  /\ log_message.methodName = <<"v","1",".","c","o","m","p","u","t","e",".","i","n","s","t","a","n","c","e","s",".","i","n","s","e","r","t">>
  /\ Len(log_message.disks) = 2
  /\ resources.exc = "none"
  /\ Len(resources.val) = 3

(***************************************************************************)
(* C21: MicromanagerEvaluationRequest.extract gives one resource, built    *)
(* from the name and asset_type of the payload, and metadata that is the   *)
(* payload's metadata mapping (empty when absent or null) with             *)
(* publish_time, message_id and attributes of the message set over it: the *)
(* message_id is always the one of the message, and a key the payload      *)
(* alone has, like src, is there only when the payload gave it.            *)
(***************************************************************************)

C21_EnvelopeKeys == {"publish_time", "message_id", "attributes"}

C21_PayloadKeys ==
  IF message.data.metadata.kind = "dict" THEN DOMAIN message.data.metadata.dict ELSE {}

C21_Returned == pc = "done" /\ extracted.exc = "none"

C21_OneResourceOverlaidMetadata ==
  /\ pc = "done" =>
       (extracted.exc = "none" <=> message.data.asset_type \in RegisteredAssetTypes)
  /\ C21_Returned =>
       LET md == extracted.val.metadata
       IN /\ Len(extracted.val.resources) = 1
          /\ extracted.val.resources[1].name = message.data.name
          /\ extracted.val.resources[1].resource_type = message.data.asset_type
          /\ DOMAIN md = C21_PayloadKeys \cup C21_EnvelopeKeys
          /\ md.message_id = message.message_id
          /\ md.publish_time = message.publish_time
          /\ md.attributes = message.attributes
          /\ \A k \in C21_PayloadKeys \ C21_EnvelopeKeys :
               md[k] = message.data.metadata.dict[k]
          /\ "src" \in DOMAIN md <=> "src" \in C21_PayloadKeys

\* the payload's metadata has src and a message_id that is not the message's
C21_Witness ==
  /\ C21_Returned
  /\ "src" \in C21_PayloadKeys
  /\ "message_id" \in C21_PayloadKeys
  /\ message.data.metadata.dict["message_id"] /= message.message_id
  /\ extracted.val.metadata["message_id"] = message.message_id
  /\ extracted.val.metadata["src"] = <<"s","c","a","n">>

\* the payload's metadata is null: the metadata is the fields of the message
C21_WitnessNull ==
  /\ C21_Returned
  /\ message.data.metadata.kind = "null"
  /\ DOMAIN extracted.val.metadata = C21_EnvelopeKeys

(***************************************************************************)
(* C22: evaluate calls of several threads on one engine are safe: no step  *)
(* of evaluate adds, removes or replaces an entry of the registry, or      *)
(* changes package_name or the counter of the class, so whatever the       *)
(* order of the steps each call returns the Evaluations it returns when    *)
(* run alone, and policies() is the same before and after.                 *)
(***************************************************************************)

C22_EngineUntouched ==
  /\ _policies' = _policies
  /\ policies(_policies') = policies(_policies)
  /\ counter' = counter
  /\ engines' = engines

C22_AsAlone ==
  /\ _policies = engines[1].loaded
  /\ engines[1].package_name = package_name(1)
  /\ counter = 1
  /\ \A t \in Threads :
       /\ threads[t].tpc = "returned" =>
            threads[t].evals = evaluate(engines[1].loaded, threads[t].resource)
       /\ threads[t].tpc = "loop" =>
            threads[t].items = matched_items(engines[1].loaded, threads[t].resource)

C22_ConcurrentEvaluateSafe == [][C22_EngineUntouched]_vars /\ []C22_AsAlone

\* the calls of two threads ran one into the other: the policy that raises
\* had its turn in thread 2 before thread 1, which called first, came to it
C22_Witness ==
  /\ \A t \in Threads : threads[t].tpc = "returned"
  /\ Len(_policies) = 2
  /\ _policies[1].cls.evaluate = "result"
  /\ _policies[2].cls.evaluate = Raise
  /\ threads[1].resource /= threads[2].resource
  /\ Len(threads[1].evals) = 1
  /\ Len(threads[2].evals) = 0
  /\ Len(calls) = 3
  /\ calls[1].policy = "PolicyA"
  /\ calls[2].policy = "PolicyB"
  /\ calls[3].policy = "PolicyB"
  /\ printed = << "PolicyB", "PolicyB" >>

(***************************************************************************)
(* C26: every engine gets a package_name no other engine of the process    *)
(* has: for engines constructed in any order, the steps of __init__ (the   *)
(* increment of the counter of the class, then its read for the name) of   *)
(* one thread among those of another, the names differ and the counter is  *)
(* the number of engines constructed.                                      *)
(***************************************************************************)

C26_Named == { t \in Threads : threads[t].tpc \in {"named", "constructed"} }

C26_UniquePackageNames ==
  /\ \A t, u \in C26_Named :
       t /= u => threads[t].package_name /= threads[u].package_name
  /\ \A i, j \in 1..Len(engines) :
       i /= j => engines[i].package_name /= engines[j].package_name
  /\ Len(engines) = MaxThreads => counter = Len(engines)

(***************************************************************************)
(* C23: to_dict on a Resource whose fetch fails (401, 404 or a body that   *)
(* is not JSON) returns without raising, with empty remote data; the       *)
(* identity of the Resource is as it was, so full_resource_name() gives    *)
(* afterwards what it gave before.                                         *)
(***************************************************************************)

C23_Names ==
  { history[k].result : k \in {j \in 1..Len(history) : history[j].do = "full_resource_name"} }

C23_FetchFailed == api_resource.made /\ api_resource.fetches > 0
                   /\ api_resource.cache.data = {}

C23_FailedFetchHarmless ==
  /\ \A k \in 1..Len(history) :
       history[k].do = "to_dict" =>
         /\ history[k].result.exc = "none"
         /\ history[k].result.val.identity = op.arg
  /\ api_resource.made =>
       /\ api_resource.resource_data = op.arg
       /\ C23_Names \subseteq {Returns(full_resource_name(op.arg))}
  /\ C23_FetchFailed =>
       \A k \in 1..Len(history) :
         history[k].do = "to_dict" => history[k].result.val.remote = {}

\* the name was asked for, the fetch failed, the name was asked for again
C23_Witness ==
  /\ C23_FetchFailed
  /\ Len(history) = 3
  /\ history[1].do = "full_resource_name"
  /\ history[2].do = "to_dict"
  /\ history[2].result = Returns([identity |-> op.arg, remote |-> {}])
  /\ history[3] = history[1]

(***************************************************************************)
(* C24: the remote data of a Resource is absent until the first access and *)
(* fetched once: after any to_dict calls on one Resource, the first        *)
(* accesses of several threads at the same time among them, at most one    *)
(* fetch was made for it and every call gave what that fetch gave.         *)
(***************************************************************************)

C24_ToDicts == { k \in 1..Len(history) : history[k].do = "to_dict" }

C24_FetchedOnce ==
  api_resource.made =>
    /\ api_resource.fetches <= 1
    /\ api_resource.fetches = (IF C24_ToDicts = {} THEN 0 ELSE 1)
    /\ api_resource.cache.state = "absent" <=> C24_ToDicts = {}
    /\ \A k \in C24_ToDicts :
         /\ history[k].result.exc = "none"
         /\ history[k].result.val.remote = api_resource.cache.data
    /\ \A j, k \in C24_ToDicts : history[j].result = history[k].result

\* both threads had called before the data was there; each then called again
C24_Witness ==
  /\ api_resource.made
  /\ api_resource.fetches = 1
  /\ api_resource.cache.data /= {}
  /\ Cardinality(C24_ToDicts) = MaxCalls * MaxThreads
  /\ \A t \in Threads : threads[t].tpc = "returned"
  /\ history[1].by /= history[2].by

\* the first accesses of two threads are under way and nothing is fetched yet
C24_WitnessFirstAccess ==
  /\ api_resource.made
  /\ api_resource.cache.state = "absent"
  /\ api_resource.fetches = 0
  /\ \A t \in Threads : threads[t].tpc = "called"

(***************************************************************************)
(* C25: the construction of a Resource with a resource_type the registry   *)
(* does not have fails with "Unrecognized resource type", and with a       *)
(* required identity field missing with "Missing data required for         *)
(* resource creation"; the type is looked up before the fields, so a type  *)
(* that is not known is reported as such whatever fields are given, and    *)
(* no Resource is made in either case.                                     *)
(***************************************************************************)

C25_Asked == op /= NoOp /\ op.do = "from_resource_data"

C25_ConstructionErrors ==
  C25_Asked =>
    LET known == op.arg.resource_type \in RegisteredTypes
        complete == required_resource_data(op.arg.resource_type) \subseteq DOMAIN op.arg
    IN /\ ~known => /\ op.result.exc = "ResourceException"
                    /\ op.message = "Unrecognized resource type"
       /\ (known /\ ~complete) =>
            /\ op.result.exc = "ResourceException"
            /\ op.message = "Missing data required for resource creation"
       /\ (known /\ complete) => op.result = Returns(op.arg) /\ op.message = "none"
       /\ api_resource.made <=> (known /\ complete)

\* a type that is not known, asked for without a name
C25_Witness ==
  /\ C25_Asked
  /\ op.arg.resource_type = "fake.type"
  /\ "name" \notin DOMAIN op.arg
  /\ op.message = "Unrecognized resource type"
  /\ ~api_resource.made

\* an App Engine instance asked for with its name alone
C25_WitnessMissing ==
  /\ C25_Asked
  /\ op.arg.resource_type = "appengine.googleapis.com/Instance"
  /\ DOMAIN op.arg = {"resource_type", "name"}
  /\ op.message = "Missing data required for resource creation"
  /\ ~api_resource.made

====
